---- MODULE Spec2Model ----
(***************************************************************************)
(* A model of RiskBot (src/examples/riskbot.py): the act() dispatcher and  *)
(* its legality re-check, the sequence selector (set_next_move,            *)
(* set_continuation_move, turn, player_action), the candidate generators   *)
(* it calls, the control heat map (FfHeatMap) and the turnover-risk        *)
(* penalty.                                                                *)
(*                                                                         *)
(* Numbers.  Python floats are held as integers: a probability is a        *)
(* percentage (1.0 is 100), a score is held in hundredths of a point (1.0  *)
(* is 100, 1.1 is 110), and a heat-map cell in ten-thousandths (prob*prob  *)
(* of two percentages; 1.0 is 10000).  The base scores of RiskBot are whole*)
(* points.                                                                 *)
(*                                                                         *)
(* Optional values.  A Python Optional[X] is a sequence of length at most  *)
(* one: <<>> is None and <<x>> is the object x.                            *)
(***************************************************************************)
EXTENDS Integers, Sequences, FiniteSets, TLC

VARIABLES
    pc,             \* where the caller is: "idle", "called" (act is to run), "returned"
    debug,          \* RiskBot.debug
    current_move,   \* RiskBot.current_move: Optional[ActionSequence]
    heat_map,       \* RiskBot.heat_map: Optional[FfHeatMap]
    game,           \* the decision point handed to act(game), with the collaborators' answers
    handled,        \* what the handler act dispatched to did (before the legality re-check)
    result,         \* what act did: returned an action, or raised
    all_actions,    \* the candidates the last set_next_move / set_continuation_move generated
    generated,      \* the steps of current_move as they were when it was selected
    handed,         \* the steps popped from current_move since it was selected
    heat_prev,      \* heat spec: the grids before the last fold
    heat_op,        \* heat spec: the last fold
    heat_op_prev,   \* heat spec: the fold before it
    pen             \* penalty spec: the inputs turnover_chance_penalty is applied to

vars == <<pc, debug, current_move, heat_map, game, handled, result, all_actions,
          generated, handed, heat_prev, heat_op, heat_op_prev, pen>>

-----------------------------------------------------------------------------
(* The board and the teams the bounded model plays on. *)

\* Own units, in the iteration order of team.players.
OwnPlayers == <<"p1", "p2">>

\* The opposing unit.
OppPlayers == <<"o1">>

\* player is None
NoPlayer == "none"

\* position is None
NoSquare == 0

\* Board squares are numbered 1..NumSquares.
NumSquares == 5

Squares == 1..NumSquares

\* Where each unit stands.
PositionOf(player) ==
    CASE player = "p1" -> 1
      [] player = "p2" -> 2
      [] player = "o1" -> 3
      [] OTHER -> NoSquare

RangeOf(s) == {s[i] : i \in 1..Len(s)}

-----------------------------------------------------------------------------
(* botbowl.Action and botbowl.ActionChoice, as RiskBot reads them. *)

Action(action_type, player, position) ==
    [action_type |-> action_type, player |-> player, position |-> position]

ActionChoice(action_type, players, positions) ==
    [action_type |-> action_type, players |-> players, positions |-> positions]

\* The members of the enum botbowl.ActionType the model uses.
ActionTypes ==
    {"HEADS", "TAILS", "KICK", "RECEIVE", "PLACE_PLAYER", "END_SETUP", "PLACE_BALL",
     "SELECT_PLAYER", "SELECT_NONE", "START_MOVE", "START_BLOCK", "START_BLITZ",
     "START_PASS", "START_HANDOFF", "START_FOUL", "END_TURN", "MOVE", "BLOCK",
     "STAND_UP", "END_PLAYER_TURN", "USE_REROLL", "DONT_USE_REROLL", "USE_SKILL",
     "DONT_USE_SKILL", "USE_APOTHECARY", "DONT_USE_APOTHECARY", "PUSH", "FOLLOW_UP",
     "SELECT_ATTACKER_DOWN", "SELECT_BOTH_DOWN", "SELECT_PUSH",
     "SELECT_DEFENDER_STUMBLES", "SELECT_DEFENDER_DOWN"}

AvailableActionTypes(available_actions) ==
    {available_actions[i].action_type : i \in 1..Len(available_actions)}

-----------------------------------------------------------------------------
(* What a handler, and act itself, can do: return an action, return None,  *)
(* or raise.                                                               *)

NoAction == Action("None", NoPlayer, NoSquare)

Returned(action) == [kind |-> "action", action |-> action, error |-> ""]

ReturnedNone == [kind |-> "none", action |-> NoAction, error |-> ""]

Raised(error) == [kind |-> "raise", action |-> NoAction, error |-> error]

NotRun == [kind |-> "notrun", action |-> NoAction, error |-> ""]

-----------------------------------------------------------------------------
(* act: the legality re-check and the catch-all. *)

\* isinstance(action.action_type, type(available_action.action_type)): both
\* are members of the one enum class ActionType, whichever members they are.
IsInstanceOfType(action_type, choice_type) ==
    action_type \in ActionTypes /\ choice_type \in ActionTypes

\* One iteration of the loop over available_actions: action_found is
\* assigned, not or-ed, and the loop has no break.
ActionFoundStep(action_found, action, available_action) ==
    IF IsInstanceOfType(action.action_type, available_action.action_type)
    THEN IF available_action.players /= <<>> /\ available_action.positions /= <<>>
         THEN action.player \in RangeOf(available_action.players)
                /\ action.player \in RangeOf(available_action.players)
         ELSE IF available_action.players /= <<>>
         THEN action.player \in RangeOf(available_action.players)
         ELSE IF available_action.positions /= <<>>
         THEN action.position \in RangeOf(available_action.positions)
         ELSE TRUE
    ELSE action_found

RECURSIVE ActionFoundFrom(_, _, _, _)
ActionFoundFrom(action_found, action, available_actions, i) ==
    IF i > Len(available_actions) THEN action_found
    ELSE ActionFoundFrom(ActionFoundStep(action_found, action, available_actions[i]),
                         action, available_actions, i + 1)

\* action_found after the loop "for available_action in available_actions".
ActionFound(action, available_actions) ==
    ActionFoundFrom(FALSE, action, available_actions, 1)

\* A catch-all that picks the last offered choice instead of the first.
CatchAllLast(available_actions) ==
    IF available_actions = <<>> THEN Raised("IndexError")
    ELSE LET action_choice == available_actions[Len(available_actions)]
             player == IF action_choice.players /= <<>>
                       THEN action_choice.players[1] ELSE NoPlayer
             position == IF action_choice.positions /= <<>>
                         THEN action_choice.positions[1] ELSE NoSquare
         IN Returned(Action(action_choice.action_type, player, position))

\* "Ugly catch-all -> simply pick an action": the first offered choice with
\* its first player and its first position.
CatchAll(available_actions) ==
    IF available_actions = <<>> THEN Raised("IndexError")
    ELSE LET action_choice == available_actions[1]
             player == IF action_choice.players /= <<>>
                       THEN action_choice.players[1] ELSE NoPlayer
             position == IF action_choice.positions /= <<>>
                         THEN action_choice.positions[1] ELSE NoSquare
         IN Returned(Action(action_choice.action_type, player, position))

\* "Check returned Action is valid" to the end of act, given what the
\* handler did.  A handler that raised has left act already; one that
\* returned None makes action.action_type raise.
CheckReturned(outcome, available_actions, dbg) ==
    CASE outcome.kind = "raise" -> outcome
      [] outcome.kind = "none" -> Raised("AttributeError")
      [] OTHER ->
           IF ActionFound(outcome.action, available_actions) THEN outcome
           ELSE IF dbg THEN Raised("Exception: Invalid action")
           ELSE CatchAll(available_actions)

\* The else branch of the dispatch: a procedure act has no handler for.
\* USE_SKILL is returned at once, without the re-check.
UnknownProcedure(available_actions, dbg) ==
    IF dbg THEN Raised("Exception: Unknown procedure")
    ELSE IF "USE_SKILL" \in AvailableActionTypes(available_actions)
    THEN Returned(Action("USE_SKILL", NoPlayer, NoSquare))
    ELSE CheckReturned(CatchAll(available_actions), available_actions, dbg)

\* An action is legal at a decision point when one offered choice has its
\* type and, where that choice lists players or positions, its player and
\* its position.
LegalFor(action, available_action) ==
    /\ action.action_type = available_action.action_type
    /\ available_action.players /= <<>> => action.player \in RangeOf(available_action.players)
    /\ available_action.positions /= <<>> =>
           action.position \in RangeOf(available_action.positions)

IsLegal(action, available_actions) ==
    \E i \in 1..Len(available_actions) : LegalFor(action, available_actions[i])

-----------------------------------------------------------------------------
(* ActionSequence. *)

ActionSequence(action_steps, player, i_score, d_score) ==
    [action_steps |-> action_steps, player |-> player,
     immediate_score |-> i_score, delayed_score |-> d_score]

\* ActionSequence.is_empty
is_empty(sequence) == sequence.action_steps = <<>>

\* BotHelper.is_do_nothing
is_do_nothing(action) ==
    LET type_1 == /\ Len(action.action_steps) = 2
                  /\ action.action_steps[1].action_type = "START_MOVE"
                  /\ action.action_steps[2].action_type = "END_PLAYER_TURN"
        type_2 == /\ Len(action.action_steps) = 1
                  /\ action.action_steps[1].action_type = "START_MOVE"
    IN type_1 \/ type_2

-----------------------------------------------------------------------------
(* The game-state collaborator, as far as the bot queries it.  A game g is *)
(* a record: g.proc and g.available_actions are the decision point, the    *)
(* other fields are the collaborators' answers (see the worlds below).     *)

\* Square.is_adjacent on the bounded board, a single row of squares.
Adjacent(a, b) == a /= NoSquare /\ b /= NoSquare /\ (a - b = 1 \/ b - a = 1)

AllPlayers == RangeOf(OwnPlayers) \cup RangeOf(OppPlayers)

TeamOf(player) == IF player \in RangeOf(OwnPlayers) THEN "own" ELSE "opp"

OppTeam(team) == IF team = "own" THEN "opp" ELSE "own"

\* game.get_player_at
PlayerAt(square) ==
    IF \E q \in AllPlayers : PositionOf(q) = square
    THEN CHOOSE q \in AllPlayers : PositionOf(q) = square
    ELSE NoPlayer

\* game.get_ball_carrier
BallCarrier(g) == IF g.ball_square = NoSquare THEN NoPlayer ELSE PlayerAt(g.ball_square)

\* game.has_ball
HasBall(g, player) == g.ball_square /= NoSquare /\ g.ball_square = PositionOf(player)

\* len(game.get_adjacent_players(square, team=team, down=False))
NumAdjacentStanding(g, square, team) ==
    Cardinality({q \in AllPlayers :
        TeamOf(q) = team /\ Adjacent(PositionOf(q), square) /\ g.up[q]})

\* BotHelper.get_players(game, team, include_own=True, include_opp=False,
\* include_used=False): the own units on the pitch that have not acted.
PlayersToMove(g) == SelectSeq(OwnPlayers, LAMBDA q : ~g.used[q])

\* ... only_used=True
PlayersUsed(g) == SelectSeq(OwnPlayers, LAMBDA q : g.used[q])

\* BotHelper.get_num_unmoved, from the list get_players returns
NumUnmovedOf(players_to_move) == Len(players_to_move) - 1

\* BotHelper.get_num_unmoved
get_num_unmoved(g) == NumUnmovedOf(PlayersToMove(g))

-----------------------------------------------------------------------------
(* The turnover-risk model. *)

BASE_SCORE_TURNOVER == -30

BASE_SCORE_TURNOVER_UNMOVED_PLAYER == -37

Min(a, b) == IF a < b THEN a ELSE b

\* BotHelper.drop_ball_penalty from the two counts of standing neighbours.
DropBallPenaltyOf(my_players, their_players) ==
    LET favorability == my_players - their_players
    IN Min(0, 50 * (favorability - 2))

\* BotHelper.drop_ball_penalty, in points
drop_ball_penalty(g, drop_ball_square, player) ==
    DropBallPenaltyOf(NumAdjacentStanding(g, drop_ball_square, TeamOf(player)),
                      NumAdjacentStanding(g, drop_ball_square, OppTeam(TeamOf(player))))

\* The score turnover_chance_penalty multiplies the probability with, in
\* points: fall_down_value is BotHelper.fall_down_value(game, player) and
\* drop_penalty is <<>> when drop_ball_square is None.
TurnoverScore(num_unmoved, fall_down, fall_down_value, drop_penalty) ==
    LET base == BASE_SCORE_TURNOVER + num_unmoved * BASE_SCORE_TURNOVER_UNMOVED_PLAYER
        fallen == IF fall_down THEN base - fall_down_value ELSE base
    IN IF drop_penalty /= <<>> THEN fallen + drop_penalty[1] ELSE fallen

\* "return score * probability": points times a percentage is a score in
\* hundredths.
PenaltyOf(probability, num_unmoved, fall_down, fall_down_value, drop_penalty) ==
    TurnoverScore(num_unmoved, fall_down, fall_down_value, drop_penalty) * probability

\* BotHelper.turnover_chance_penalty
turnover_chance_penalty(g, probability, num_unmoved, fall_down, drop_ball_square, player) ==
    PenaltyOf(probability, num_unmoved, fall_down, g.fall_down_value[player],
              IF drop_ball_square /= NoSquare
              THEN <<drop_ball_penalty(g, drop_ball_square, player)>> ELSE <<>>)

\* BotHelper.path_cost_to_score
path_cost_to_score(g, path, num_unmoved, drop_ball_square, player) ==
    turnover_chance_penalty(g, 100 - path.prob, num_unmoved, TRUE, drop_ball_square, player)

\* BotHelper.continuation_path_cost_to_score
continuation_path_cost_to_score(g, path, num_unmoved, drop_ball_square, player) ==
    path_cost_to_score(g, path, num_unmoved, drop_ball_square, player) * 4

-----------------------------------------------------------------------------
(* FfHeatMap.  A grid is a function from the squares of the pitch to a     *)
(* cell value; a path is a record with its steps (squares) and its prob.   *)

\* FfHeatMap.__init__: both grids 0.0 everywhere.
NewHeatMap ==
    [units_friendly |-> [sq \in Squares |-> 0], units_opponent |-> [sq \in Squares |-> 0]]

\* path.get_last_step()
LastStep(path) == path.steps[Len(path.steps)]

\* A loop body that assigns the cell instead of adding to it.
SetPath(hm, is_friendly, path) ==
    IF is_friendly
    THEN [hm EXCEPT !.units_friendly[LastStep(path)] = path.prob * path.prob]
    ELSE [hm EXCEPT !.units_opponent[LastStep(path)] = path.prob * path.prob]

\* A loop body that adds to a cell only while the cell is still 0.
AddPathOnce(hm, is_friendly, path) ==
    IF is_friendly
    THEN [hm EXCEPT !.units_friendly[LastStep(path)] =
             IF @ = 0 THEN path.prob * path.prob ELSE @]
    ELSE [hm EXCEPT !.units_opponent[LastStep(path)] =
             IF @ = 0 THEN path.prob * path.prob ELSE @]

\* The body of the loop of add_unit_paths, for one path:
\* grid[last.x][last.y] += path.prob * path.prob
AddPath(hm, is_friendly, path) ==
    IF is_friendly
    THEN [hm EXCEPT !.units_friendly[LastStep(path)] = @ + path.prob * path.prob]
    ELSE [hm EXCEPT !.units_opponent[LastStep(path)] = @ + path.prob * path.prob]

RECURSIVE AddPathsFrom(_, _, _, _)
AddPathsFrom(hm, is_friendly, paths, i) ==
    IF i > Len(paths) THEN hm
    ELSE AddPathsFrom(AddPath(hm, is_friendly, paths[i]), is_friendly, paths, i + 1)

\* FfHeatMap.add_unit_paths (self.team is the bot's own team)
add_unit_paths(hm, player, paths) ==
    AddPathsFrom(hm, TeamOf(player) = "own", paths, 1)

RECURSIVE AddUnitsFrom(_, _, _, _)
AddUnitsFrom(hm, players, paths, i) ==
    IF i > Len(players) THEN hm
    ELSE AddUnitsFrom(add_unit_paths(hm, players[i], paths[players[i]]), players, paths, i + 1)

\* FfHeatMap.add_unit_by_paths: players are the keys of the dict, in
\* insertion order, paths its values.
add_unit_by_paths(hm, players, paths) == AddUnitsFrom(hm, players, paths, 1)

\* len(game.get_adjacent_squares(position, occupied=True))
NumOccupiedAdjacent(square) ==
    Cardinality({sq \in Squares : Adjacent(sq, square) /\ PlayerAt(sq) /= NoPlayer})

\* The body of the loop of add_players_moved, for one player: 1.0 on the
\* player's cell, and 0.5 more on that same cell for each occupied neighbour.
AddPlayerMoved(hm, player) ==
    [hm EXCEPT !.units_friendly[PositionOf(player)] =
        @ + 10000 + 5000 * NumOccupiedAdjacent(PositionOf(player))]

RECURSIVE AddPlayersMovedFrom(_, _, _)
AddPlayersMovedFrom(hm, players, i) ==
    IF i > Len(players) THEN hm
    ELSE AddPlayersMovedFrom(AddPlayerMoved(hm, players[i]), players, i + 1)

\* FfHeatMap.add_players_moved
add_players_moved(hm, players) == AddPlayersMovedFrom(hm, players, 1)

\* The heat map set_next_move builds: the opposition's paths, the paths of
\* the own units still to move, then the own units that have acted.
BuildHeatMap(g) ==
    add_players_moved(
        add_unit_by_paths(
            add_unit_by_paths(NewHeatMap, SelectSeq(OppPlayers, LAMBDA q : ~g.stunned[q]),
                              g.paths),
            PlayersToMove(g), g.paths),
        PlayersUsed(g))

-----------------------------------------------------------------------------
(* The candidate generators. *)

\* BotHelper.potential_end_turn_action: "End turn happens on a score of 1.0".
potential_end_turn_action ==
    <<ActionSequence(<<Action("END_TURN", NoPlayer, NoSquare)>>, NoPlayer, 100, 0)>>

\* BotHelper.potential_end_player_turn_action
potential_end_player_turn_action(player) ==
    <<ActionSequence(<<Action("END_PLAYER_TURN", NoPlayer, NoSquare)>>, player, 100, 0)>>

\* BotHelper.potential_block_actions: one candidate per adjacent standing
\* opponent; g.block_score is what score_block answers.
potential_block_actions(g, player) ==
    IF ~g.up[player] THEN <<>>
    ELSE LET blockable == SelectSeq(OppPlayers,
                 LAMBDA q : Adjacent(PositionOf(q), PositionOf(player)) /\ g.up[q]
                            /\ ~g.stunned[q])
         IN [i \in 1..Len(blockable) |->
                ActionSequence(<<Action("START_BLOCK", player, NoSquare),
                                 Action("BLOCK", NoPlayer, PositionOf(blockable[i])),
                                 Action("END_PLAYER_TURN", NoPlayer, NoSquare)>>,
                               player, g.block_score[1], g.block_score[2])]

\* A trimming of futile paths that makes no exception of turn 8.
IsFutileOnAnyTurn(g, turnover_cost, path, threshold) ==
    turnover_cost * (100 - path.prob) < threshold * 10000

\* "trim futile paths": turnover_cost * (1 - path.prob) < threshold, unless
\* it is the team's turn 8.  turnover_cost is a score in hundredths and the
\* threshold is in points.
IsFutile(g, turnover_cost, path, threshold) ==
    g.turn /= 8 /\ turnover_cost * (100 - path.prob) < threshold * 10000

\* The threshold each generator trims futile paths at, in points: the loops
\* of potential_move_actions, potential_foul_actions, potential_pass_actions
\* and potential_handoff_actions, and the blitz loop of set_next_move.
FutileThreshold(generator) ==
    CASE generator = "move" -> -100
      [] generator = "foul" -> -100
      [] generator = "blitz" -> -150
      [] generator = "pass" -> -200
      [] generator = "handoff" -> -200

\* "for path in paths: if ...: continue": the paths a generator's loop goes
\* on with.
TrimFutile(g, player, paths, num_unmoved, generator) ==
    LET turnover_cost ==
            turnover_chance_penalty(g, 100, num_unmoved, TRUE, NoSquare, player)
    IN SelectSeq(paths, LAMBDA path :
                            ~IsFutile(g, turnover_cost, path, FutileThreshold(generator)))

\* The stand-up candidate of potential_move_actions: START_MOVE, STAND_UP,
\* END_PLAYER_TURN, scored by score_move at the unit's own square.
StandUpCandidate(g, player) ==
    LET base == g.stand_score[player]
        score == IF g.sideline[player] = 0 THEN -100
                 ELSE IF g.sideline[player] = 1 /\ g.tackle_zones_in[player] > 0
                 THEN base - 2000
                 ELSE base
    IN ActionSequence(<<Action("START_MOVE", player, NoSquare),
                        Action("STAND_UP", NoPlayer, NoSquare),
                        Action("END_PLAYER_TURN", NoPlayer, NoSquare)>>,
                      player, score, score)

\* The MOVE steps of a path: the steps on the unit's own square are skipped.
RECURSIVE MoveSteps(_, _)
MoveSteps(steps, own_square) ==
    IF steps = <<>> THEN <<>>
    ELSE (IF Head(steps) = own_square THEN <<>>
          ELSE <<Action("MOVE", NoPlayer, Head(steps))>>)
         \o MoveSteps(Tail(steps), own_square)

\* The body of the loop over paths in potential_move_actions, for a path
\* that is not trimmed.  path.score and path.is_complete are what score_move
\* answers for the path's last square.
MoveCandidate(g, player, path, num_unmoved, do_nothing_score, is_continuation) ==
    LET to_square == LastStep(path)
        action_steps ==
            (IF ~is_continuation THEN <<Action("START_MOVE", player, NoSquare)>> ELSE <<>>)
            \o (IF ~g.up[player] THEN <<Action("STAND_UP", NoPlayer, NoSquare)>> ELSE <<>>)
            \o MoveSteps(path.steps, PositionOf(player))
            \o (IF path.is_complete
                THEN <<Action("END_PLAYER_TURN", NoPlayer, NoSquare)>> ELSE <<>>)
        drop_ball_square == IF HasBall(g, player) THEN to_square ELSE NoSquare
        path_score ==
            IF is_continuation
            THEN continuation_path_cost_to_score(g, path, num_unmoved, drop_ball_square, player)
            ELSE path_cost_to_score(g, path, num_unmoved, drop_ball_square, player)
        pickup_fail == 100 - g.pickup_prob
        pickup_score ==
            IF to_square = g.ball_square /\ BallCarrier(g) = NoPlayer
            THEN path_score
                 - turnover_chance_penalty(g, pickup_fail, num_unmoved, TRUE,
                                           g.ball_square, player)
                 + turnover_chance_penalty(g, pickup_fail, num_unmoved, FALSE,
                                           g.ball_square, player)
            ELSE path_score
        i_score == path.score + pickup_score - do_nothing_score
        d_score == i_score
                   + (100 - path.prob) * num_unmoved * (-BASE_SCORE_TURNOVER_UNMOVED_PLAYER)
    IN ActionSequence(action_steps, player, i_score, d_score)

RECURSIVE MoveCandidatesFrom(_, _, _, _, _, _, _)
MoveCandidatesFrom(g, player, paths, num_unmoved, do_nothing_score, is_continuation, i) ==
    IF i > Len(paths) THEN <<>>
    ELSE LET turnover_cost ==
                 turnover_chance_penalty(g, 100, num_unmoved, TRUE, NoSquare, player)
         IN (IF IsFutile(g, turnover_cost, paths[i], -100) THEN <<>>
             ELSE <<MoveCandidate(g, player, paths[i], num_unmoved, do_nothing_score,
                                  is_continuation)>>)
            \o MoveCandidatesFrom(g, player, paths, num_unmoved, do_nothing_score,
                                  is_continuation, i + 1)

\* A potential_move_actions that offers the stand-up candidate to every unit.
potential_move_actions_always_stand(g, player, paths, num_unmoved, do_nothing_score, is_continuation) ==
    <<StandUpCandidate(g, player)>>
    \o MoveCandidatesFrom(g, player, paths, num_unmoved, do_nothing_score,
                          is_continuation, 1)

\* BotHelper.potential_move_actions
potential_move_actions(g, player, paths, num_unmoved, do_nothing_score, is_continuation) ==
    (IF ~g.tackle_zone[player] THEN <<StandUpCandidate(g, player)>> ELSE <<>>)
    \o MoveCandidatesFrom(g, player, paths, num_unmoved, do_nothing_score,
                          is_continuation, 1)

-----------------------------------------------------------------------------
(* RiskBot.set_next_move. *)

\* The candidates one offered choice contributes to all_actions.  The pass
\* and hand-off generators are entered only for the unit on the ball; the
\* bounded model offers them to units that are not.
CandidatesForChoice(g, action_choice, num_unmoved) ==
    LET players == action_choice.players
        PerPlayer(Gen(_)) ==
            LET RECURSIVE From(_)
                From(i) == IF i > Len(players) THEN <<>> ELSE Gen(players[i]) \o From(i + 1)
            IN From(1)
    IN CASE action_choice.action_type = "START_MOVE" ->
              PerPlayer(LAMBDA q : potential_move_actions(g, q, g.paths[q], num_unmoved,
                                                          g.do_nothing_score[q], FALSE))
         [] action_choice.action_type = "START_BLOCK" ->
              PerPlayer(LAMBDA q : potential_block_actions(g, q))
         [] action_choice.action_type \in {"START_PASS", "START_HANDOFF"} ->
              PerPlayer(LAMBDA q : <<>>)
         [] action_choice.action_type = "END_TURN" -> potential_end_turn_action
         [] OTHER -> <<>>

RECURSIVE CandidatesFrom(_, _, _)
CandidatesFrom(g, num_unmoved, i) ==
    IF i > Len(g.available_actions) THEN <<>>
    ELSE CandidatesForChoice(g, g.available_actions[i], num_unmoved)
         \o CandidatesFrom(g, num_unmoved, i + 1)

\* all_actions as set_next_move has it before "if all_actions:".
GenerateCandidates(g) == CandidatesFrom(g, get_num_unmoved(g), 1)

MaxOf(S, default) == IF S = {} THEN default ELSE CHOOSE x \in S : \A y \in S : y <= x

ActionsOf(actions, player) == SelectSeq(actions, LAMBDA a : a.player = player)

\* A fraction that is 0 only when get_num_unmoved is negative.
FractionRealizedWhileAnyLeft(num_unmoved) == IF num_unmoved < 0 THEN 0 ELSE 1

\* "fraction_realized = 0 if num_unmoved == 0 else 1.0"
FractionRealized(num_unmoved) == IF num_unmoved = 0 THEN 0 ELSE 1

\* A loop body in which the last of the units with the best net score wins.
PrimaryStepLastWins(st, actions, player, fraction_realized) ==
    LET mine == ActionsOf(actions, player)
        max_i == MaxOf({mine[k].immediate_score : k \in 1..Len(mine)}, 0)
    IN IF max_i < 110 THEN st
       ELSE LET seen == [st EXCEPT !.highest_i_score =
                            IF max_i > @ THEN max_i ELSE @]
                i_move == mine[CHOOSE k \in 1..Len(mine) :
                               /\ mine[k].immediate_score = max_i
                               /\ \A j \in 1..(k - 1) : mine[j].immediate_score /= max_i]
            IN IF is_do_nothing(i_move) THEN seen
               ELSE LET max_d == MaxOf({mine[k].delayed_score : k \in 1..Len(mine)}, 0)
                        improvement == (max_d - max_i) * fraction_realized
                        score == max_i - improvement
                        summed == [seen EXCEPT !.sum_improvement = @ + improvement]
                    IN IF score >= st.highest_score
                       THEN [summed EXCEPT !.highest_score = score, !.best_move = <<i_move>>]
                       ELSE summed


\* The body of "for player in players_to_move" in set_next_move; st holds
\* highest_score, best_move, sum_improvement and highest_i_score.
PrimaryStep(st, actions, player, fraction_realized) ==
    LET mine == ActionsOf(actions, player)
        max_i == MaxOf({mine[k].immediate_score : k \in 1..Len(mine)}, 0)
    IN IF max_i < 110 THEN st
       ELSE LET seen == [st EXCEPT !.highest_i_score =
                            IF max_i > @ THEN max_i ELSE @]
                i_move == mine[CHOOSE k \in 1..Len(mine) :
                               /\ mine[k].immediate_score = max_i
                               /\ \A j \in 1..(k - 1) : mine[j].immediate_score /= max_i]
            IN IF is_do_nothing(i_move) THEN seen
               ELSE LET max_d == MaxOf({mine[k].delayed_score : k \in 1..Len(mine)}, 0)
                        improvement == (max_d - max_i) * fraction_realized
                        score == max_i - improvement
                        summed == [seen EXCEPT !.sum_improvement = @ + improvement]
                    IN IF score > st.highest_score
                       THEN [summed EXCEPT !.highest_score = score, !.best_move = <<i_move>>]
                       ELSE summed

RECURSIVE PrimaryFrom(_, _, _, _, _)
PrimaryFrom(st, actions, players, fraction_realized, i) ==
    IF i > Len(players) THEN st
    ELSE PrimaryFrom(PrimaryStep(st, actions, players[i], fraction_realized),
                     actions, players, fraction_realized, i + 1)

\* best_move after the "if True:" block: <<>> when no unit is chosen.
PrimarySelection(g, actions) ==
    LET st == PrimaryFrom([highest_score |-> -999900, best_move |-> <<>>,
                           sum_improvement |-> 0, highest_i_score |-> 0],
                          actions, PlayersToMove(g),
                          FractionRealized(get_num_unmoved(g)), 1)
    IN IF st.highest_score < 110 - st.sum_improvement THEN <<>> ELSE st.best_move

\* A sort that leaves the candidates in the order they were generated in.
SortNothing(actions) == actions

\* list.sort(key=immediate_score, reverse=True): stable, so equal scores
\* keep the order they were generated in.
RECURSIVE SortByImmediate(_)
SortByImmediate(actions) ==
    IF actions = <<>> THEN <<>>
    ELSE LET top == MaxOf({actions[k].immediate_score : k \in 1..Len(actions)}, 0)
             i == CHOOSE k \in 1..Len(actions) :
                      /\ actions[k].immediate_score = top
                      /\ \A j \in 1..(k - 1) : actions[j].immediate_score /= top
         IN <<actions[i]>>
            \o SortByImmediate([k \in 1..(Len(actions) - 1) |->
                                    IF k < i THEN actions[k] ELSE actions[k + 1]])

\* A loop body that drops a do-nothing candidate alone and keeps the other
\* candidates of its unit.
FallbackStepKeepingUnit(actions) ==
    LET best_move == Head(actions)
    IN [found |-> ~is_do_nothing(best_move), best_move |-> best_move,
        all_actions |-> Tail(actions)]

\* One pass of "while not found": the candidate popped, whether it ends the
\* loop, and the list the pass leaves.
FallbackStep(actions) ==
    LET best_move == Head(actions)
    IN IF is_do_nothing(best_move)
       THEN [found |-> FALSE, best_move |-> best_move,
             all_actions |-> SelectSeq(Tail(actions),
                                       LAMBDA a : a.player /= best_move.player)]
       ELSE [found |-> TRUE, best_move |-> best_move, all_actions |-> Tail(actions)]

\* A fallback that takes the candidate at the bottom of the sorted list.
FallbackLast(actions) ==
    IF actions = <<>> THEN [current_move |-> <<>>, error |-> "IndexError"]
    ELSE [current_move |-> <<actions[Len(actions)]>>, error |-> ""]

\* "while not found": pop the top candidate; a do-nothing one takes every
\* candidate of its unit with it.  pop(0) of an empty list raises.
RECURSIVE FallbackSelection(_)
FallbackSelection(actions) ==
    IF actions = <<>> THEN [current_move |-> <<>>, error |-> "IndexError"]
    ELSE LET best_move == Head(actions)
         IN IF is_do_nothing(best_move)
            THEN FallbackSelection(SelectSeq(Tail(actions),
                                             LAMBDA a : a.player /= best_move.player))
            ELSE [current_move |-> <<best_move>>, error |-> ""]

\* A selection that answers END_TURN when there is no candidate at all.
SelectOrEndTurn(g, actions) ==
    IF actions = <<>>
    THEN [current_move |-> <<[action_steps |-> <<Action("END_TURN", NoPlayer, NoSquare)>>,
                              player |-> NoPlayer, immediate_score |-> 100,
                              delayed_score |-> 0]>>,
          error |-> ""]
    ELSE LET best_move == PrimarySelection(g, actions)
         IN IF best_move /= <<>> THEN [current_move |-> best_move, error |-> ""]
            ELSE FallbackSelection(SortByImmediate(actions))

\* The selection of set_next_move from "if all_actions:" on: current_move
\* as it is left, and the error raised on the way, if any.
SelectNextMove(g, actions) ==
    IF actions = <<>> THEN [current_move |-> <<>>, error |-> ""]
    ELSE LET best_move == PrimarySelection(g, actions)
         IN IF best_move /= <<>> THEN [current_move |-> best_move, error |-> ""]
            ELSE FallbackSelection(SortByImmediate(actions))

\* RiskBot.set_next_move: the bot's fields after it, and the error it
\* raised, if any.
set_next_move(g) ==
    LET actions == GenerateCandidates(g)
        chosen == SelectNextMove(g, actions)
    IN [current_move |-> chosen.current_move, heat_map |-> <<BuildHeatMap(g)>>,
        all_actions |-> actions, error |-> chosen.error]

\* A set_continuation_move that takes the candidate with the best delayed
\* score.
set_continuation_move_by_delayed(g, hm, num_unmoved) ==
    LET player == g.active_player
        PerChoice(action_choice) ==
            CASE action_choice.action_type = "MOVE" ->
                   potential_move_actions(g, player, g.paths[player], num_unmoved,
                                          g.do_nothing_score[player], TRUE)
              [] action_choice.action_type = "END_PLAYER_TURN" ->
                   potential_end_player_turn_action(player)
              [] OTHER -> <<>>
        RECURSIVE From(_)
        From(i) == IF i > Len(g.available_actions) THEN <<>>
                   ELSE PerChoice(g.available_actions[i]) \o From(i + 1)
        actions == From(1)
        top == MaxOf({actions[i].delayed_score : i \in 1..Len(actions)}, 0)
        first == CHOOSE i \in 1..Len(actions) :
                    /\ actions[i].delayed_score = top
                    /\ \A j \in 1..(i - 1) : actions[j].delayed_score /= top
    IN [current_move |-> IF actions = <<>> THEN <<>> ELSE <<actions[first]>>,
        heat_map |-> hm, all_actions |-> actions, error |-> ""]

\* A set_continuation_move that builds a heat map of its own.
set_continuation_move_rebuilding(g, hm, num_unmoved) ==
    LET player == g.active_player
        PerChoice(action_choice) ==
            CASE action_choice.action_type = "MOVE" ->
                   potential_move_actions(g, player, g.paths[player], num_unmoved,
                                          g.do_nothing_score[player], TRUE)
              [] action_choice.action_type = "END_PLAYER_TURN" ->
                   potential_end_player_turn_action(player)
              [] OTHER -> <<>>
        RECURSIVE From(_)
        From(i) == IF i > Len(g.available_actions) THEN <<>>
                   ELSE PerChoice(g.available_actions[i]) \o From(i + 1)
        actions == From(1)
    IN [current_move |-> IF actions = <<>> THEN <<>>
                         ELSE <<SortByImmediate(actions)[1]>>,
        heat_map |-> <<add_unit_paths(NewHeatMap, player, g.paths[player])>>,
        all_actions |-> actions, error |-> ""]

\* RiskBot.set_continuation_move
set_continuation_move(g, hm, num_unmoved) ==
    LET player == g.active_player
        PerChoice(action_choice) ==
            CASE action_choice.action_type = "MOVE" ->
                   potential_move_actions(g, player, g.paths[player], num_unmoved,
                                          g.do_nothing_score[player], TRUE)
              [] action_choice.action_type = "END_PLAYER_TURN" ->
                   potential_end_player_turn_action(player)
              [] OTHER -> <<>>
        RECURSIVE From(_)
        From(i) == IF i > Len(g.available_actions) THEN <<>>
                   ELSE PerChoice(g.available_actions[i]) \o From(i + 1)
        actions == From(1)
    IN [current_move |-> IF actions = <<>> THEN <<>>
                         ELSE <<SortByImmediate(actions)[1]>>,
        heat_map |-> hm, all_actions |-> actions, error |-> ""]

\* A popleft that returns the front step and leaves it in the sequence.
PeekLeft(bot) ==
    IF bot.error /= "" THEN [bot |-> bot, outcome |-> Raised(bot.error)]
    ELSE IF bot.current_move = <<>>
    THEN [bot |-> bot, outcome |-> Raised("AttributeError")]
    ELSE IF bot.current_move[1].action_steps = <<>>
    THEN [bot |-> bot, outcome |-> Raised("IndexError")]
    ELSE [bot |-> bot, outcome |-> Returned(Head(bot.current_move[1].action_steps))]

\* "self.current_move.popleft()" on the bot fields bot: the step returned
\* and the sequence left.  None has no popleft, and pop(0) of an empty
\* list raises.
PopLeft(bot) ==
    IF bot.error /= "" THEN [bot |-> bot, outcome |-> Raised(bot.error)]
    ELSE IF bot.current_move = <<>>
    THEN [bot |-> bot, outcome |-> Raised("AttributeError")]
    ELSE IF is_empty(bot.current_move[1])
    THEN [bot |-> bot, outcome |-> Raised("IndexError")]
    ELSE [bot |-> [bot EXCEPT !.current_move[1].action_steps = Tail(@)],
          outcome |-> Returned(Head(bot.current_move[1].action_steps))]

\* A turn() that goes on with what is left of current_move, as
\* player_action does, and selects only when nothing is left.
turn_going_on(g) ==
    IF current_move = <<>> \/ is_empty(current_move[1]) THEN PopLeft(set_next_move(g))
    ELSE PopLeft([current_move |-> current_move, heat_map |-> heat_map,
                  all_actions |-> <<>>, error |-> ""])

\* RiskBot.turn (and RiskBot.blitz, which calls it)
turn(g) == PopLeft(set_next_move(g))

\* RiskBot.player_action on the bot fields cm (current_move) and hm
player_action(g, cm, hm, old_actions) ==
    IF cm = <<>> \/ is_empty(cm[1])
    THEN PopLeft(set_continuation_move(g, hm, get_num_unmoved(g)))
    ELSE PopLeft([current_move |-> cm, heat_map |-> hm, all_actions |-> old_actions,
                  error |-> ""])

\* RiskBot.quick_snap
quick_snap(hm, old_actions) ==
    [bot |-> [current_move |-> <<>>, heat_map |-> hm, all_actions |-> old_actions,
              error |-> ""],
     outcome |-> Returned(Action("END_TURN", NoPlayer, NoSquare))]

-----------------------------------------------------------------------------
(* RiskBot.setup.  The game answers reorganize for proc.reorganize,        *)
(* on_pitch for whether an own unit is on the pitch, placeable for the     *)
(* players of the PLACE_PLAYER choice, receiving for get_receiving_team()  *)
(* == my_team, behind for my score < the opponent's, own_side_right for    *)
(* is_team_side(Square(13, 3), my_team), width for the pitch width, and    *)
(* value, bash, blitz, pass_, receive for the five abilities the players   *)
(* are sorted by.                                                          *)

\* sorted(players, key=key, reverse=reverse): stable in either direction.
RECURSIVE SortedBy(_, _, _)
SortedBy(players, key, reverse) ==
    IF players = <<>> THEN <<>>
    ELSE LET n == Len(players)
             sorted == SortedBy(SubSeq(players, 1, n - 1), key, reverse)
             x == players[n]
             stays(y) == IF reverse THEN key[y] >= key[x] ELSE key[y] <= key[x]
             k == Cardinality({i \in 1..Len(sorted) : stays(sorted[i])})
         IN SubSeq(sorted, 1, k) \o <<x>> \o SubSeq(sorted, k + 1, Len(sorted))

\* A selection loop that takes the first player of the list, added or not.
PopFirst(list, players_added) ==
    IF list = <<>> THEN [error |-> "IndexError", player |-> <<>>, list |-> list]
    ELSE [error |-> "", player |-> <<Head(list)>>, list |-> Tail(list)]

\* "while not found: player = list.pop(0); found = player not in
\* players_added": the player found and the list left; pop(0) of an empty
\* list raises.
RECURSIVE PopUntilNew(_, _)
PopUntilNew(list, players_added) ==
    IF list = <<>> THEN [error |-> "IndexError", player |-> <<>>, list |-> list]
    ELSE IF Head(list) \notin RangeOf(players_added)
    THEN [error |-> "", player |-> <<Head(list)>>, list |-> Tail(list)]
    ELSE PopUntilNew(Tail(list), players_added)

\* BotHelper.reverse_x_for_right
reverse_x_for_right(g, x) == IF ~g.own_side_right THEN g.width - 1 - x ELSE x

SquaresOf(g, xys) == [i \in 1..Len(xys) |-> <<reverse_x_for_right(g, xys[i][1]), xys[i][2]>>]

\* place_squares of the three formations.
ReceivingSquares(g) ==
    SquaresOf(g, <<<<13, 7>>, <<13, 9>>, <<13, 8>>, <<13, 6>>, <<13, 10>>, <<5, 8>>,
                   <<11, 4>>, <<11, 12>>, <<12, 13>>, <<12, 3>>, <<7, 8>>>>)

KickingSquares(g) ==
    SquaresOf(g, <<<<13, 8>>, <<13, 7>>, <<13, 9>>, <<11, 10>>, <<11, 6>>, <<11, 3>>,
                   <<11, 13>>, <<11, 2>>, <<11, 14>>, <<10, 11>>, <<10, 5>>>>)

DesperateSquares(g) ==
    SquaresOf(g, <<<<13, 6>>, <<13, 5>>, <<13, 7>>, <<11, 2>>, <<11, 11>>, <<11, 5>>,
                   <<11, 8>>, <<11, 14>>, <<10, 3>>, <<10, 13>>, <<10, 8>>>>)

\* The list the loop of setup takes player number i + 1 from (i counts
\* from 0).
ListFor(receiving, i) ==
    IF receiving
    THEN (IF i = 5 THEN "pass_" ELSE IF i \in 0..4 THEN "bash"
          ELSE IF i \in {6, 7} THEN "receive" ELSE "blitz")
    ELSE (IF i \in {0, 1, 2} THEN "value" ELSE "bash")

\* "for i in range(min(11, len(players_available)))" from i on: st holds
\* the five sorted lists, place_squares, players_added, action_steps and
\* the error raised, if any.
RECURSIVE PlaceFrom(_, _, _, _)
PlaceFrom(receiving, st, i, n) ==
    IF i >= n \/ st.error /= "" THEN st
    ELSE IF st.place_squares = <<>> THEN [st EXCEPT !.error = "IndexError"]
    ELSE LET place_square == Head(st.place_squares)
             which == ListFor(receiving, i)
             popped == PopUntilNew(st.lists[which], st.players_added)
         IN IF popped.error /= ""
            THEN [st EXCEPT !.error = popped.error, !.place_squares = Tail(@)]
            ELSE PlaceFrom(receiving,
                           [st EXCEPT
                               !.place_squares = Tail(@),
                               !.lists[which] = popped.list,
                               !.players_added = Append(@, popped.player[1]),
                               !.action_steps =
                                   Append(@, Action("PLACE_PLAYER", popped.player[1],
                                                    place_square))],
                           i + 1, n)

\* The placement sequence setup builds when no own unit is on the pitch.
BuildSetup(g) ==
    LET by_value == SortedBy(g.placeable, g.value, TRUE)
        n_keep == Min(11, Len(by_value))
        players_available == SubSeq(by_value, 1, n_keep)
        lists == [list \in {"value", "bash", "blitz", "pass_", "receive"} |->
                     IF list = "value" THEN SortedBy(players_available, g.value, FALSE)
                     ELSE SortedBy(players_available, g[list], TRUE)]
        place_squares == IF g.receiving THEN ReceivingSquares(g)
                         ELSE IF g.behind THEN DesperateSquares(g)
                         ELSE KickingSquares(g)
        placed == PlaceFrom(g.receiving,
                            [lists |-> lists, place_squares |-> place_squares,
                             players_added |-> <<>>, action_steps |-> <<>>, error |-> ""],
                            0, Min(11, Len(players_available)))
    IN [error |-> placed.error,
        action_steps |-> Append(placed.action_steps, Action("END_SETUP", NoPlayer, NoSquare))]

\* RiskBot.setup on current_move cm: the bot's current_move after it and
\* what it returned or raised.
setup(g, cm) ==
    LET built == IF g.reorganize
                 THEN [error |-> "", action_steps |-> <<Action("END_SETUP", NoPlayer, NoSquare)>>]
                 ELSE BuildSetup(g)
        new == g.reorganize \/ ~g.on_pitch
        move == IF new THEN <<ActionSequence(built.action_steps, NoPlayer, 0, 0)>> ELSE cm
    IN IF new /\ built.error /= "" THEN [current_move |-> cm, outcome |-> Raised(built.error)]
       ELSE IF move = <<>> THEN [current_move |-> move, outcome |-> Raised("AttributeError")]
       ELSE IF move[1].action_steps = <<>>
       THEN [current_move |-> move, outcome |-> Raised("Exception")]
       ELSE [current_move |-> <<[move[1] EXCEPT !.action_steps = Tail(@)]>>,
             outcome |-> Returned(Head(move[1].action_steps))]

-----------------------------------------------------------------------------
(* The handlers of the block sub-decisions. *)

\* BotHelper.block_favourability; g.skills[q] is the set of skills of q.
block_favourability(g, block_result, active_player, attacker, defender) ==
    LET has(q, skill) == skill \in g.skills[q]
    IN IF TeamOf(attacker) = TeamOf(active_player)
       THEN CASE block_result = "SELECT_DEFENDER_DOWN" -> 600
              [] block_result = "SELECT_DEFENDER_STUMBLES" ->
                   IF has(defender, "DODGE") /\ ~has(attacker, "TACKLE") THEN 400 ELSE 600
              [] block_result = "SELECT_PUSH" -> 400
              [] block_result = "SELECT_BOTH_DOWN" ->
                   IF has(attacker, "BLOCK")
                   THEN (IF has(defender, "BLOCK") THEN 300 ELSE 500)
                   ELSE (IF has(defender, "BLOCK") THEN 100 ELSE 200)
              [] block_result = "SELECT_ATTACKER_DOWN" -> 100
              [] OTHER -> 0
       ELSE CASE block_result = "SELECT_DEFENDER_DOWN" -> 100
              [] block_result = "SELECT_DEFENDER_STUMBLES" ->
                   IF has(defender, "DODGE") /\ ~has(attacker, "TACKLE") THEN 300 ELSE 100
              [] block_result = "SELECT_PUSH" -> 300
              [] block_result = "SELECT_BOTH_DOWN" ->
                   IF ~has(attacker, "BLOCK") /\ has(defender, "BLOCK") THEN 600
                   ELSE IF ~has(attacker, "BLOCK") /\ ~has(defender, "BLOCK") THEN 500
                   ELSE IF has(attacker, "BLOCK") /\ ~has(defender, "BLOCK") THEN 200
                   ELSE 400
              [] block_result = "SELECT_ATTACKER_DOWN" -> 600
              [] OTHER -> 0

\* BotHelper.check_reroll_block_unused: it reads block_results[0].score, and
\* an ActionSequence has immediate_score and delayed_score but no score, so
\* with any die among the results the read raises; with none the best score
\* stays 0, which is below 4.
check_reroll_block_unused(block_results) ==
    IF Len(block_results) > 0 THEN [error |-> "AttributeError", reroll |-> FALSE]
    ELSE [error |-> "", reroll |-> TRUE]

\* RiskBot.block
block(g) ==
    IF g.waiting_juggernaut THEN Returned(Action("USE_SKILL", NoPlayer, NoSquare))
    ELSE IF g.waiting_wrestle_attacker \/ g.waiting_wrestle_defender
    THEN Returned(Action("USE_SKILL", NoPlayer, NoSquare))
    ELSE LET dice == SelectSeq(g.available_actions,
                               LAMBDA c : c.action_type /= "USE_REROLL")
             check_reroll == "USE_REROLL" \in AvailableActionTypes(g.available_actions)
             actions == [i \in 1..Len(dice) |->
                            ActionSequence(<<Action(dice[i].action_type, NoPlayer, NoSquare)>>,
                                           g.active_player,
                                           block_favourability(g, dice[i].action_type,
                                               g.active_player, g.attacker, g.defender),
                                           0)]
             unused == check_reroll_block_unused(actions)
         IN IF check_reroll /\ unused.error /= "" THEN Raised(unused.error)
            ELSE IF check_reroll /\ unused.reroll
            THEN Returned(Action("USE_REROLL", NoPlayer, NoSquare))
            ELSE IF actions = <<>> THEN Raised("IndexError")
            ELSE Returned(SortByImmediate(actions)[1].action_steps[1])

\* The best score check_reroll_block finds among the first three results:
\* the highest when the bot's team chooses the die, else the lowest.
BestBlockScore(scores, favor_is_team) ==
    LET better(cur, best) == IF favor_is_team THEN cur > best ELSE cur < best
        first == IF Len(scores) > 0 THEN scores[1] ELSE 0
        second == IF Len(scores) > 1 /\ better(scores[2], first) THEN scores[2] ELSE first
    IN IF Len(scores) > 2 /\ better(scores[3], second) THEN scores[3] ELSE second

\* BotHelper.check_reroll_block: g.block_results is
\* block_proc.available_actions(), g.favor the side that chooses the die;
\* the attacker is passed for the active player.
check_reroll_block(g) ==
    LET scores == [i \in 1..Len(g.block_results) |->
                      block_favourability(g, g.block_results[i].action_type,
                                          g.attacker, g.attacker, g.defender)]
        best_block_score == BestBlockScore(scores, g.favor = "own")
    IN \/ best_block_score < 300
       \/ BallCarrier(g) = g.defender /\ best_block_score < 500

\* success_prob of reroll(), as the pair <<numerator, denominator>>.
SuccessProb(g) ==
    IF g.context = "Block"
    THEN CASE g.num_dice = 1 -> <<IF g.favor = "own" THEN 833 ELSE 667, 1000>>
           [] g.num_dice = 2 -> <<IF g.favor = "own" THEN 972 ELSE 444, 1000>>
           [] OTHER -> <<IF g.favor = "own" THEN 995 ELSE 296, 1000>>
    ELSE IF g.num_dice = 1 THEN <<Min(5, 7 - g.target_roll), 6>>
    ELSE <<1, 2>>

\* The last lines of reroll(): with p = success_prob[1] / success_prob[2],
\* value >= 170 - 170.0 * rerolls / (9 - turn), both sides multiplied by
\* success_prob[2] * (9 - turn).
WorthReroll(g, success_prob, fall_down, ball_square, player) ==
    LET num_unmoved == get_num_unmoved(g)
        value == -turnover_chance_penalty(g, success_prob[1], num_unmoved, fall_down,
                                          ball_square, player)
    IN value * (9 - g.turn) >= 170 * success_prob[2] * (9 - g.turn - g.rerolls)

\* A reroll() that goes by the threshold alone.
reroll_by_threshold(g, player) ==
    LET is_block == g.context = "Block"
        ball_square == IF g.context /= "PassAttempt" /\ g.ball_square /= PositionOf(player)
                       THEN NoSquare ELSE g.ball_square
        fall_down == g.context \in {"Block", "GFI", "Dodge"}
    IN IF is_block /\ ~check_reroll_block(g)
       THEN Returned(Action("DONT_USE_REROLL", NoPlayer, NoSquare))
       ELSE IF g.can_use_pro THEN Returned(Action("USE_SKILL", NoPlayer, NoSquare))
       ELSE IF 9 - g.turn = 0 THEN Raised("ZeroDivisionError")
       ELSE IF WorthReroll(g, SuccessProb(g), fall_down, ball_square, player)
       THEN Returned(Action("USE_REROLL", NoPlayer, NoSquare))
       ELSE Returned(Action("DONT_USE_REROLL", NoPlayer, NoSquare))

\* RiskBot.reroll: player is the attacker of a Block, the passer of a
\* PassAttempt and else the player of the context.
reroll(g, player) ==
    LET is_block == g.context = "Block"
        ball_square == IF g.context /= "PassAttempt" /\ g.ball_square /= PositionOf(player)
                       THEN NoSquare ELSE g.ball_square
        fall_down == g.context \in {"Block", "GFI", "Dodge"}
    IN IF is_block /\ ~check_reroll_block(g)
       THEN Returned(Action("DONT_USE_REROLL", NoPlayer, NoSquare))
       ELSE IF g.can_use_pro THEN Returned(Action("USE_SKILL", NoPlayer, NoSquare))
       ELSE IF g.rerolls >= g.turn THEN Returned(Action("USE_REROLL", NoPlayer, NoSquare))
       ELSE IF 9 - g.turn = 0 THEN Raised("ZeroDivisionError")
       ELSE IF WorthReroll(g, SuccessProb(g), fall_down, ball_square, player)
       THEN Returned(Action("USE_REROLL", NoPlayer, NoSquare))
       ELSE Returned(Action("DONT_USE_REROLL", NoPlayer, NoSquare))

\* The loop of RiskBot.push from position i on: st holds score and
\* push_square (<<>> while unbound); g.push_score is what score_push answers.
RECURSIVE PushFrom(_, _, _, _)
PushFrom(g, positions, st, i) ==
    IF i > Len(positions) THEN st
    ELSE LET cur_score == g.push_score[positions[i]]
         IN PushFrom(g, positions,
                     IF cur_score > st.score
                     THEN [score |-> cur_score, push_square |-> <<positions[i]>>]
                     ELSE st,
                     i + 1)

\* RiskBot.push: push_square is unbound when no square scores above -100.0.
push(g) ==
    LET st == PushFrom(g, g.available_actions[1].positions,
                       [score |-> -10000, push_square |-> <<>>], 1)
    IN IF st.push_square = <<>> THEN Raised("UnboundLocalError")
       ELSE Returned(Action("PUSH", NoPlayer, st.push_square[1]))

\* The loop of RiskBot.follow_up from position i on; g.do_follow is what
\* check_follow_up answers.  Falling off the loop returns None.
RECURSIVE FollowUpFrom(_, _, _)
FollowUpFrom(g, positions, i) ==
    IF i > Len(positions) THEN ReturnedNone
    ELSE IF g.do_follow /\ PositionOf(g.active_player) /= positions[i]
    THEN Returned(Action("FOLLOW_UP", NoPlayer, positions[i]))
    ELSE IF ~g.do_follow /\ PositionOf(g.active_player) = positions[i]
    THEN Returned(Action("FOLLOW_UP", NoPlayer, positions[i]))
    ELSE FollowUpFrom(g, positions, i + 1)

\* RiskBot.follow_up
follow_up(g) == FollowUpFrom(g, g.available_actions[1].positions, 1)

\* RiskBot.interception: the first player of the first SELECT_PLAYER choice
\* that lists players (each has a roll).
interception(g) ==
    LET offered == SelectSeq(g.available_actions,
                     LAMBDA c : c.action_type = "SELECT_PLAYER" /\ c.players /= <<>>)
    IN IF offered /= <<>>
       THEN Returned(Action("SELECT_PLAYER", offered[1].players[1], NoSquare))
       ELSE Returned(Action("SELECT_NONE", NoPlayer, NoSquare))

\* The handlers that read nothing but the procedure: coin_toss_flip,
\* coin_toss_kick_receive, apothecary, shadowing.
FixedHandler(proc) ==
    CASE proc = "CoinTossFlip" -> Returned(Action("TAILS", NoPlayer, NoSquare))
      [] proc = "CoinTossKickReceive" -> Returned(Action("RECEIVE", NoPlayer, NoSquare))
      [] proc = "Apothecary" -> Returned(Action("USE_APOTHECARY", NoPlayer, NoSquare))
      [] proc = "Shadowing" -> Returned(Action("USE_SKILL", NoPlayer, NoSquare))

-----------------------------------------------------------------------------
(* The scoring of a move by the unit on the ball.  The pitch answers, per  *)
(* square: endzone_distance (distance_to_scoring_endzone; 0 in the end     *)
(* zone), square_sideline (distance_to_sideline), ball_control (what       *)
(* ball_control_value_at_square answers, hundredths) and can_2d (the       *)
(* squares where someone_can_2d_me_here holds).                            *)

BASE_SCORE_MOVE_BALL == 45

BALL_POSITION_SCORE_PER_SQUARE == 9

Max(a, b) == IF a > b THEN a ELSE b

\* BotHelper.in_scoring_endzone
in_scoring_endzone(g, square) == g.endzone_distance[square] = 0

\* BotHelper.in_scoring_range
in_scoring_range(g, player) ==
    g.moves_left[player] >= g.endzone_distance[PositionOf(player)]

\* BotHelper.scoring_impossible; the active team is the bot's own team.
scoring_impossible(g) ==
    IF g.turn < 8 THEN FALSE
    ELSE IF \E i \in 1..Len(PlayersToMove(g)) : in_scoring_range(g, PlayersToMove(g)[i])
    THEN FALSE
    ELSE IF g.opp_turn = 8 THEN TRUE
    ELSE ~\E i \in 1..Len(OppPlayers) :
             ~g.stunned[OppPlayers[i]] /\ in_scoring_range(g, OppPlayers[i])

\* FfHeatMap.get_ball_move_square_safety_score, in hundredths:
\* 30.0 * max(0.0, 1.0 - opponent_heat / 2), the heat being in
\* ten-thousandths.
get_ball_move_square_safety_score(hm, square) ==
    Max(0, 3000 - (3 * hm.units_opponent[square]) \div 20)

\* BotHelper.score_move_ball, in hundredths; prob is a percentage.
score_move_ball(g, hm, player, to_square, prob, current_ball_control) ==
    IF BallCarrier(g) = NoPlayer \/ player /= BallCarrier(g) THEN 0
    ELSE
    LET own_adjacent == NumAdjacentStanding(g, to_square, TeamOf(player))
        opps == Cardinality({q \in RangeOf(OppPlayers) :
                    Adjacent(PositionOf(q), to_square) /\ ~g.stunned[q]})
        opps_close == Cardinality({q \in RangeOf(OppPlayers) :
                          /\ PositionOf(q) - to_square \in -2..2
                          /\ ~g.stunned[q]})
        placed ==
            IF in_scoring_endzone(g, to_square)
            THEN (IF prob > 99 THEN 99900
                  ELSE IF g.turn = 8 THEN 11500
                  ELSE 6000)
                 \* the standing own neighbours, then those not on a
                 \* diagonal: on a row of squares the same units
                 + 1000 * own_adjacent + 1000 * own_adjacent
            ELSE get_ball_move_square_safety_score(hm, to_square)
                 - (IF opps > 0 THEN 4000 + 2000 * opps ELSE 0)
                 - (IF opps_close > 0 THEN 2000 + 500 * opps_close ELSE 0)
                 - (IF ~g.blitz_used THEN 3000 ELSE 0)
                 + 100 * BALL_POSITION_SCORE_PER_SQUARE
                   * (g.endzone_distance[PositionOf(player)] - g.endzone_distance[to_square])
                 - (IF g.square_sideline[to_square] < 3 THEN 3000 ELSE 0)
    IN 100 * BASE_SCORE_MOVE_BALL + placed
       + g.ball_control[to_square] - current_ball_control

\* The eight other scorers of score_move.  Each is its first tests on the
\* ball and the teams, which answer (0.0, True), and then the value the rest
\* of it computes from distances, abilities and the heat map, which the
\* pitch answers per square in rest_of (hundredths).  A scorer answers a
\* score and is_complete.
Intents ==
    {"move to receiver", "move to ball", "move toward ball", "move to sweep",
     "move to defensive screen", "move to offsensive screen", "move to cage",
     "move to mark opponent"}

Scored(score, is_complete) == [score |-> score, is_complete |-> is_complete]

\* ball_carrier.team, None when the ball is loose or off the pitch
BallTeam(g) == IF BallCarrier(g) = NoPlayer THEN "none" ELSE TeamOf(BallCarrier(g))

\* BotHelper.score_receiving_position
score_receiving_position(g, player, to_square) ==
    IF BallCarrier(g) /= NoPlayer
       /\ (TeamOf(player) /= BallTeam(g) \/ player = BallCarrier(g))
    THEN Scored(0, TRUE)
    ELSE IF ~in_scoring_endzone(g, to_square) /\ g.turn = 8 THEN Scored(0, TRUE)
    ELSE Scored(g.rest_of["move to receiver"][to_square], TRUE)

\* A score_move_to_ball that answers a complete move.
score_move_to_ball_complete(g, player, to_square) ==
    IF g.ball_square /= to_square \/ BallCarrier(g) /= NoPlayer THEN Scored(0, TRUE)
    ELSE Scored(g.rest_of["move to ball"][to_square], TRUE)

\* BotHelper.score_move_to_ball
score_move_to_ball(g, player, to_square) ==
    IF g.ball_square /= to_square \/ BallCarrier(g) /= NoPlayer THEN Scored(0, TRUE)
    ELSE Scored(g.rest_of["move to ball"][to_square], FALSE)

\* BotHelper.score_move_towards_ball
score_move_towards_ball(g, player, to_square) ==
    IF to_square = g.ball_square \/ BallTeam(g) = TeamOf(player) THEN Scored(0, TRUE)
    ELSE Scored(g.rest_of["move toward ball"][to_square], TRUE)

\* BotHelper.score_sweep
score_sweep(g, player, to_square) ==
    IF g.opp_turn = 8 THEN Scored(0, TRUE)
    ELSE IF BallTeam(g) /= OppTeam(TeamOf(player)) THEN Scored(0, TRUE)
    ELSE Scored(g.rest_of["move to sweep"][to_square], TRUE)

\* BotHelper.score_defensive_screen
score_defensive_screen(g, player, to_square) ==
    IF g.opp_turn = 8 THEN Scored(0, TRUE)
    ELSE IF BallTeam(g) = "none" \/ BallTeam(g) = TeamOf(player) THEN Scored(0, TRUE)
    ELSE Scored(g.rest_of["move to defensive screen"][to_square], TRUE)

\* BotHelper.score_offensive_screen
score_offensive_screen(g, player, to_square) ==
    IF g.opp_turn = 8 THEN Scored(0, TRUE)
    ELSE IF BallCarrier(g) = NoPlayer \/ BallTeam(g) /= TeamOf(player)
            \/ BallCarrier(g) = player
    THEN Scored(0, TRUE)
    ELSE Scored(g.rest_of["move to offsensive screen"][to_square], TRUE)

\* BotHelper.score_caging
score_caging(g, player, to_square) ==
    IF BallCarrier(g) = NoPlayer \/ BallTeam(g) /= TeamOf(player)
       \/ BallCarrier(g) = player
    THEN Scored(0, TRUE)
    ELSE IF g.opp_turn = 8 THEN Scored(0, TRUE)
    ELSE Scored(g.rest_of["move to cage"][to_square], TRUE)

\* BotHelper.score_mark_opponent
score_mark_opponent(g, player, to_square) ==
    IF g.opp_turn = 8 THEN Scored(0, TRUE)
    ELSE IF BallCarrier(g) = player THEN Scored(0, TRUE)
    ELSE IF ~\E q \in RangeOf(OppPlayers) : Adjacent(PositionOf(q), to_square)
    THEN Scored(0, TRUE)
    ELSE Scored(g.rest_of["move to mark opponent"][to_square], TRUE)

\* The answers of the nine scorers, in the order score_move declares them
\* in, each a score, is_complete and a description.
IntentAnswers(g, hm, player, to_square, prob, current_ball_control) ==
    LET Entry(scored, description) ==
            [score |-> scored.score, is_complete |-> scored.is_complete,
             description |-> description]
    IN <<Entry(score_receiving_position(g, player, to_square), "move to receiver"),
         Entry(score_move_to_ball(g, player, to_square), "move to ball"),
         Entry(score_move_towards_ball(g, player, to_square), "move toward ball"),
         Entry(Scored(score_move_ball(g, hm, player, to_square, prob,
                                      current_ball_control),
                      TRUE), "move ball"),
         Entry(score_sweep(g, player, to_square), "move to sweep"),
         Entry(score_defensive_screen(g, player, to_square), "move to defensive screen"),
         Entry(score_offensive_screen(g, player, to_square), "move to offsensive screen"),
         Entry(score_caging(g, player, to_square), "move to cage"),
         Entry(score_mark_opponent(g, player, to_square), "move to mark opponent")>>

\* "scores": the list of score_move.  With scoring impossible the first
\* five entries are [0, True, ''] and their scorers are not asked.
ScoreEntries(g, hm, player, to_square, prob, current_ball_control) ==
    LET answers == IntentAnswers(g, hm, player, to_square, prob, current_ball_control)
    IN [i \in 1..Len(answers) |->
           IF scoring_impossible(g) /\ i <= 5
           THEN [score |-> 0, is_complete |-> TRUE, description |-> ""]
           ELSE answers[i]]

\* A choice among the entries in which the last of the best ones wins.
LastBestEntry(scores) ==
    LET top == MaxOf({scores[i].score : i \in 1..Len(scores)}, 0)
        i == CHOOSE k \in 1..Len(scores) :
                /\ scores[k].score = top
                /\ \A j \in (k + 1)..Len(scores) : scores[j].score /= top
    IN scores[i]

\* "scores.sort(key=lambda tup: tup[0], reverse=True)" and "scores[0]": the
\* sort is stable, so the first of the entries with the best score.
BestEntry(scores) ==
    LET top == MaxOf({scores[i].score : i \in 1..Len(scores)}, 0)
        i == CHOOSE k \in 1..Len(scores) :
                /\ scores[k].score = top
                /\ \A j \in 1..(k - 1) : scores[j].score /= top
    IN scores[i]

\* The adjustments score_move makes to the best of the nine scores.
MoveAdjustments(g, player, to_square) ==
    (IF g.square_sideline[to_square] = 0 THEN -4000
     ELSE IF g.square_sideline[to_square] = 1 THEN -2000 ELSE 0)
    + (IF ~g.up[player] THEN 3000 ELSE 0)
    - (IF to_square \in g.can_2d THEN 2000 ELSE 0)
    + (IF g.turn = 8 /\ g.ball_square = PositionOf(player)
          /\ ~in_scoring_endzone(g, to_square)
       THEN -10000 ELSE 0)

\* A score_move that never takes a path for certain.
score_move_never_certain(g, hm, player, to_square, prob, current_ball_control) ==
    Max(0, IF scoring_impossible(g) THEN 0
           ELSE score_move_ball(g, hm, player, to_square, Min(prob, 99),
                                current_ball_control))
    + MoveAdjustments(g, player, to_square)

\* BotHelper.score_move: the score it returns, in hundredths.  For the unit
\* that carries the ball each of the eight other scorers answers 0.0 at its
\* first test, so the best of the nine is the larger of 0 and
\* score_move_ball.
score_move(g, hm, player, to_square, prob, current_ball_control) ==
    BestEntry(ScoreEntries(g, hm, player, to_square, prob, current_ball_control)).score
    + MoveAdjustments(g, player, to_square)

\* BotHelper.score_move: the is_complete it returns.
score_move_is_complete(g, hm, player, to_square, prob, current_ball_control) ==
    BestEntry(ScoreEntries(g, hm, player, to_square, prob,
                           current_ball_control)).is_complete

\* BotHelper.score_move: the description it returns.
score_move_description(g, hm, player, to_square, prob, current_ball_control) ==
    BestEntry(ScoreEntries(g, hm, player, to_square, prob,
                           current_ball_control)).description

-----------------------------------------------------------------------------
(* The scoring of a blitz.  The game answers block_dice for                *)
(* num_block_dice_at, would_surf for attacker_would_surf and direct_surf   *)
(* for direct_surf_squares.  score_blitz works in hundred-thousandths of a *)
(* point, in which its two polynomials in the score are exact.             *)

BASE_SCORE_BLITZ == 35

BASE_SCORE_BLOCK == 53

BALL_CONTROL_SCORE == 120

\* The body of score_blitz, for the number of block dice that
\* game.num_block_dice_at answers.
ScoreBlitzWithDice(g, num_block_dice, attacker, block_from_square, defender, num_unmoved) ==
    LET has(q, skill) == skill \in g.skills[q]
        ball_carrier == BallCarrier(g)
        is_ball_carrier == attacker = ball_carrier
        defender_is_ball_carrier == defender = ball_carrier
        blocker == has(attacker, "BLOCK") \/ has(attacker, "WRESTLE")
        \* whole points, up to the two probabilities
        risked ==
            BASE_SCORE_BLITZ
            + (CASE num_block_dice = 3 -> 15
                 [] num_block_dice = 2 -> 0
                 [] num_block_dice = 1 -> IF blocker THEN -36 ELSE -66
                 [] num_block_dice = -2 -> -95
                 [] num_block_dice = -3 -> -150
                 [] OTHER -> 0)
            + (IF g.reroll_used \/ has(attacker, "LONER") THEN -10 ELSE 0)
            + (IF blocker THEN 20 ELSE 0)
            + (IF has(defender, "DODGE") /\ ~has(attacker, "TACKLE") THEN -10 ELSE 0)
            + (IF has(defender, "BLOCK") THEN -10 ELSE 0)
            + (IF has(attacker, "LONER") THEN -10 ELSE 0)
        judged == risked + (BASE_SCORE_BLOCK - BASE_SCORE_BLITZ)
        \* max(0.0278, .3410 - 0.00369*score), in hundred-thousandths
        prob_fail == Max(2780, 34100 - 369 * judged)
        \* 0.0000325*score*score + 0.002235*score + 0.1653, in units of
        \* 1/400000
        prob_him_down == 13 * judged * judged + 894 * judged + 66120
        adjacent_opponents ==
            {q \in RangeOf(OppPlayers) :
                Adjacent(PositionOf(q), PositionOf(attacker)) /\ g.up[q] /\ ~g.stunned[q]}
        placed ==
            100000 * (risked
                + (IF g.would_surf THEN 42 ELSE 0)
                + (IF is_ball_carrier
                   THEN (IF Adjacent(PositionOf(attacker), PositionOf(defender))
                            /\ block_from_square = PositionOf(attacker)
                         THEN 20 ELSE -40)
                   ELSE 0))
            + (IF defender_is_ball_carrier
               THEN (BALL_CONTROL_SCORE \div 4) * prob_him_down + 100000 * 50 ELSE 0)
            + 100000 * ((IF g.ball_square /= NoSquare
                            /\ Adjacent(PositionOf(defender), g.ball_square)
                         THEN 20 ELSE 0)
                + (IF g.direct_surf THEN 45 ELSE 0)
                + (IF adjacent_opponents /= {} /\ ~is_ball_carrier THEN -10 ELSE 0)
                + (IF PositionOf(attacker) = block_from_square THEN -20 ELSE 0)
                + (IF in_scoring_range(g, defender) THEN 8 ELSE 0))
        delayed == IF placed <= 100000 * BASE_SCORE_BLITZ THEN placed - 100000 * 10
                   ELSE placed
        score ==
            delayed
            + (g.fall_down_value[defender] * prob_him_down) \div 4
            + turnover_chance_penalty(g, prob_fail, num_unmoved, TRUE,
                                      IF is_ball_carrier THEN block_from_square
                                      ELSE NoSquare,
                                      attacker)
            + (IF \E q \in adjacent_opponents : ~g.opp_used[q] THEN -100000 * 8 ELSE 0)
            + (IF ~g.tackle_zone[attacker] THEN 100000 * 30 ELSE 0)
    IN <<score,
         score + num_unmoved * (-BASE_SCORE_TURNOVER_UNMOVED_PLAYER) * prob_fail>>

\* A score_blitz that pays no attention to the number of block dice.
score_blitz_any_dice(g, attacker, block_from_square, defender, num_unmoved) ==
    ScoreBlitzWithDice(g, 2, attacker, block_from_square, defender, num_unmoved)

\* BotHelper.score_blitz: the pair of the immediate and the delayed score.
score_blitz(g, attacker, block_from_square, defender, num_unmoved) ==
    ScoreBlitzWithDice(g, g.block_dice, attacker, block_from_square, defender, num_unmoved)

\* A path with the markers path_to_move_actions reads: block_dice,
\* handoff_roll and foul_roll are each None (<<>>) or a number.
MarkedPath(steps, block_dice, handoff_roll, foul_roll) ==
    [steps |-> steps, prob |-> 100, score |-> 0, is_complete |-> TRUE,
     block_dice |-> block_dice, handoff_roll |-> handoff_roll, foul_roll |-> foul_roll]

\* The first branch of path_to_move_actions: the action type of the path's
\* last step.
TerminalType(path) ==
    IF path.block_dice /= <<>> THEN "BLOCK"
    ELSE IF path.handoff_roll /= <<>> THEN "HANDOFF"
    ELSE IF path.foul_roll /= <<>> THEN "FOUL"
    ELSE "MOVE"

\* The do_assertions block of path_to_move_actions: "" when every assert
\* passes, else the exception raised.  g.active_team is
\* game.state.available_actions[0].team; reading .team or .state of no
\* player is an AttributeError.
PathAssertions(g, action_type, player_at_target) ==
    IF action_type = "MOVE"
    THEN IF player_at_target = NoPlayer \/ player_at_target = g.active_player
         THEN "" ELSE "AssertionError"
    ELSE IF player_at_target = NoPlayer THEN "AttributeError"
    ELSE IF action_type = "BLOCK"
    THEN IF TeamOf(player_at_target) = OppTeam(g.active_team) /\ g.up[player_at_target]
         THEN "" ELSE "AssertionError"
    ELSE IF action_type = "FOUL"
    THEN IF TeamOf(player_at_target) = OppTeam(g.active_team) /\ ~g.up[player_at_target]
         THEN "" ELSE "AssertionError"
    ELSE IF TeamOf(player_at_target) = g.active_team /\ g.up[player_at_target]
         THEN "" ELSE "AssertionError"

\* A path_to_move_actions that never puts a STAND_UP step first.
path_to_move_actions_without_stand_up(g, player, path, do_assertions) ==
    LET n == Len(path.steps)
        action_type == TerminalType(path)
        raised == IF do_assertions THEN PathAssertions(g, action_type, PlayerAt(path.steps[n]))
                  ELSE ""
        final_action == Action(action_type, NoPlayer, path.steps[n])
    IN [raised |-> raised,
        actions |->
            IF raised /= "" THEN <<>>
            ELSE IF g.action_allowed THEN <<final_action>>
            ELSE [i \in 1..(n - 1) |-> Action("MOVE", NoPlayer, path.steps[i])]
                 \o <<final_action>>]

\* BotHelper.path_to_move_actions: the exception raised, if any, and the
\* list of actions returned.  g.action_allowed is what
\* game._is_action_allowed answers for the final action.
path_to_move_actions(g, player, path, do_assertions) ==
    LET n == Len(path.steps)
        action_type == TerminalType(path)
        raised == IF do_assertions THEN PathAssertions(g, action_type, PlayerAt(path.steps[n]))
                  ELSE ""
        final_action == Action(action_type, NoPlayer, path.steps[n])
    IN [raised |-> raised,
        actions |->
            IF raised /= "" THEN <<>>
            ELSE IF g.action_allowed THEN <<final_action>>
            ELSE IF ~g.up[player] /\ path.steps[1] = PositionOf(player)
            THEN <<Action("STAND_UP", player, NoSquare)>>
                 \o [i \in 1..(n - 2) |-> Action("MOVE", NoPlayer, path.steps[i + 1])]
                 \o <<final_action>>
            ELSE [i \in 1..(n - 1) |-> Action("MOVE", NoPlayer, path.steps[i])]
                 \o <<final_action>>]

\* BotHelper.potential_blitz_actions: the one candidate of a blitz path,
\* its scores to the hundredth below.
potential_blitz_actions(g, player, path, num_unmoved) ==
    LET n == Len(path.steps)
        from_position == IF n > 1 THEN path.steps[n - 1] ELSE PositionOf(player)
        to_square == path.steps[n]
        score_pair == score_blitz(g, player, from_position, PlayerAt(to_square), num_unmoved)
        path_score == path_cost_to_score(g, path, num_unmoved,
                                         IF HasBall(g, player) THEN to_square ELSE NoSquare,
                                         player)
        i_score == score_pair[1] \div 1000 + path_score
        d_score == score_pair[2] \div 1000 + path_score
                   + (100 - path.prob) * num_unmoved * (-BASE_SCORE_TURNOVER_UNMOVED_PLAYER)
        action_steps ==
            <<Action("START_BLITZ", player, NoSquare)>>
            \o [i \in 1..(n - 1) |-> Action("MOVE", NoPlayer, path.steps[i])]
            \o <<Action("BLOCK", NoPlayer, to_square)>>
    IN <<ActionSequence(action_steps, player, i_score, d_score)>>

-----------------------------------------------------------------------------
(* The decision points the bounded model presents. *)

Path(steps, prob, score, is_complete) ==
    [steps |-> steps, prob |-> prob, score |-> score, is_complete |-> is_complete]

\* A decision point with nothing on the pitch but the three units, all
\* standing and unused, and no ball.
BaseGame ==
    [proc |-> "", quick_snap |-> FALSE, blitz |-> FALSE, available_actions |-> <<>>,
     active_player |-> NoPlayer, turn |-> 1, ball_square |-> NoSquare, pickup_prob |-> 100,
     used |-> [q \in RangeOf(OwnPlayers) |-> FALSE],
     up |-> [q \in AllPlayers |-> TRUE],
     tackle_zone |-> [q \in RangeOf(OwnPlayers) |-> TRUE],
     stunned |-> [q \in RangeOf(OppPlayers) |-> FALSE],
     paths |-> [q \in AllPlayers |-> <<>>],
     stand_score |-> [q \in RangeOf(OwnPlayers) |-> 0],
     sideline |-> [q \in RangeOf(OwnPlayers) |-> 2],
     tackle_zones_in |-> [q \in RangeOf(OwnPlayers) |-> 0],
     do_nothing_score |-> [q \in RangeOf(OwnPlayers) |-> 0],
     fall_down_value |-> [q \in AllPlayers |-> 0],
     block_score |-> <<0, 0>>,
     skills |-> [q \in AllPlayers |-> {}],
     attacker |-> NoPlayer, defender |-> NoPlayer,
     waiting_juggernaut |-> FALSE, waiting_wrestle_attacker |-> FALSE,
     waiting_wrestle_defender |-> FALSE,
     push_score |-> [sq \in Squares |-> 0], do_follow |-> FALSE,
     endzone_distance |-> [sq \in Squares |-> 3],
     square_sideline |-> [sq \in Squares |-> 3],
     ball_control |-> [sq \in Squares |-> 0],
     can_2d |-> {}, blitz_used |-> FALSE,
     moves_left |-> [q \in AllPlayers |-> 0], opp_turn |-> 1,
     block_dice |-> 2, reroll_used |-> FALSE, would_surf |-> FALSE,
     direct_surf |-> FALSE, opp_used |-> [q \in RangeOf(OppPlayers) |-> FALSE],
     rest_of |-> [intent \in Intents |-> [sq \in Squares |-> 0]],
     active_team |-> "own", action_allowed |-> FALSE,
     rerolls |-> 0, can_use_pro |-> FALSE, context |-> "", favor |-> "own",
     num_dice |-> 1, target_roll |-> 2, block_results |-> <<>>]

\* How one own unit stands at a Turn decision.
Unit(up, tackle_zone, stand_score, paths) ==
    [up |-> up, tackle_zone |-> tackle_zone, stand_score |-> stand_score, paths |-> paths]

\* The choices a Turn offers: the start actions of the units still to move
\* and END_TURN, which botbowl lists last; with_end_turn is "last", "first"
\* or "none".
TurnChoices(movers, blockers, passers, with_end_turn) ==
    LET end_turn == <<ActionChoice("END_TURN", <<>>, <<>>)>>
        starts ==
            (IF movers /= <<>> THEN <<ActionChoice("START_MOVE", movers, <<>>)>> ELSE <<>>)
            \o (IF blockers /= <<>>
                THEN <<ActionChoice("START_BLOCK", blockers, <<>>)>> ELSE <<>>)
            \o (IF passers /= <<>>
                THEN <<ActionChoice("START_PASS", passers, <<>>)>> ELSE <<>>)
    IN CASE with_end_turn = "last" -> starts \o end_turn
         [] with_end_turn = "first" -> end_turn \o starts
         [] OTHER -> starts

\* A Turn decision: u1 and u2 are how p1 and p2 stand, used2 whether p2 has
\* acted, p2_blocks whether p2 is offered START_BLOCK rather than START_MOVE.
TurnGame(u1, u2, used2, p2_blocks, with_end_turn, block_score, opp_paths) ==
    LET movers == IF used2 \/ p2_blocks THEN <<"p1">> ELSE <<"p1", "p2">>
        blockers == IF ~used2 /\ p2_blocks THEN <<"p2">> ELSE <<>>
        unit == [q \in RangeOf(OwnPlayers) |-> IF q = "p1" THEN u1 ELSE u2]
    IN [BaseGame EXCEPT
           !.proc = "Turn",
           !.available_actions = TurnChoices(movers, blockers, <<>>, with_end_turn),
           !.used = [q \in RangeOf(OwnPlayers) |-> q = "p2" /\ used2],
           !.up = [q \in AllPlayers |-> IF q \in RangeOf(OwnPlayers) THEN unit[q].up ELSE TRUE],
           !.tackle_zone = [q \in RangeOf(OwnPlayers) |-> unit[q].tackle_zone],
           !.stand_score = [q \in RangeOf(OwnPlayers) |-> unit[q].stand_score],
           !.paths = [q \in AllPlayers |->
                         IF q \in RangeOf(OwnPlayers) THEN unit[q].paths ELSE opp_paths],
           !.block_score = block_score]

\* A Turn at which every own unit has acted: END_TURN alone is offered, or
\* (all_used false) a pass is offered to a unit that is not on the ball.
EndOfTurnGame(all_used) ==
    [BaseGame EXCEPT
        !.proc = "Turn",
        !.available_actions =
            IF all_used THEN TurnChoices(<<>>, <<>>, <<>>, "last")
            ELSE TurnChoices(<<>>, <<>>, <<"p2">>, "none"),
        !.used = [q \in RangeOf(OwnPlayers) |-> all_used]]

\* A MoveAction or BlockAction decision of the active unit.
PlayerActionGame(proc, player, choices, paths, up) ==
    [BaseGame EXCEPT
        !.proc = proc, !.active_player = player, !.available_actions = choices,
        !.paths[player] = paths, !.up[player] = up]

\* A Block decision: the dice offered, with or without the team re-roll.
\* The unit blocking is the active player, on either side's turn.
BlockGame(attacker, defender, choices, waiting, attacker_skills) ==
    [BaseGame EXCEPT
        !.proc = "Block", !.active_player = attacker, !.available_actions = choices,
        !.attacker = attacker, !.defender = defender,
        !.waiting_juggernaut = (waiting = "juggernaut"),
        !.waiting_wrestle_attacker = (waiting = "wrestle"),
        !.skills[attacker] = attacker_skills]

\* A Push decision: the squares the defender can be pushed to.
PushGame(positions, push_score) ==
    [BaseGame EXCEPT
        !.proc = "Push", !.active_player = "p2", !.attacker = "p2", !.defender = "o1",
        !.available_actions = <<ActionChoice("PUSH", <<>>, positions)>>,
        !.push_score = [sq \in Squares |-> IF sq = 4 THEN push_score ELSE 0]]

\* A FollowUp decision: the squares offered are the attacker's own and the
\* one the defender left.
FollowUpGame(positions, do_follow) ==
    [BaseGame EXCEPT
        !.proc = "FollowUp", !.active_player = "p2", !.attacker = "p2", !.defender = "o1",
        !.available_actions = <<ActionChoice("FOLLOW_UP", <<>>, positions)>>,
        !.do_follow = do_follow]

\* A decision with a handler that reads only the offered choices, or none.
SimpleGame(proc, choices) ==
    [BaseGame EXCEPT !.proc = proc, !.available_actions = choices]

Choice(action_type) == ActionChoice(action_type, <<>>, <<>>)

\* The Turn decisions of the dispatcher model.
TurnGames ==
    {TurnGame(u1, u2, used2, p2_blocks, with_end_turn, <<250, 250>>, <<>>) :
        u1 \in {Unit(TRUE, TRUE, 0, <<Path(<<4>>, 100, 300, TRUE)>>),
                Unit(TRUE, TRUE, 0, <<Path(<<4, 5>>, 100, 300, FALSE)>>),
                Unit(FALSE, FALSE, 200, <<>>)},
        u2 \in {Unit(TRUE, TRUE, 0, <<>>)},
        used2 \in BOOLEAN, p2_blocks \in BOOLEAN, with_end_turn \in {"last", "none"}}
    \cup {EndOfTurnGame(all_used) : all_used \in BOOLEAN}
    \cup {[TurnGame(Unit(TRUE, TRUE, 0, <<Path(<<4>>, 100, 300, TRUE)>>),
                    Unit(TRUE, TRUE, 0, <<>>), FALSE, FALSE, "last", <<0, 0>>, <<>>)
              EXCEPT !.quick_snap = qs, !.blitz = ~qs] : qs \in BOOLEAN}

\* The MoveAction and BlockAction decisions of the dispatcher model.  The
\* squares offered are those next to where the unit now is, and the paths a
\* continuation is planned from start on an offered square; a step planned
\* earlier, from the unit's starting square, can be on offer or not.
PlayerActionGames ==
    {PlayerActionGame("MoveAction", "p1",
                      <<ActionChoice("MOVE", <<>>, <<sq>>), Choice("END_PLAYER_TURN")>>,
                      IF planned THEN <<Path(<<sq>>, 100, 300, TRUE)>> ELSE <<>>, TRUE) :
        sq \in {4, 5}, planned \in BOOLEAN}
    \cup {PlayerActionGame("MoveAction", "p1", <<Choice("END_PLAYER_TURN")>>, <<>>, TRUE)}
    \cup {PlayerActionGame("MoveAction", "p1",
                           <<Choice("STAND_UP"), Choice("END_PLAYER_TURN")>>, <<>>, FALSE)}
    \cup {PlayerActionGame("BlockAction", "p2", choices, <<>>, TRUE) :
            choices \in {<<ActionChoice("BLOCK", <<>>, <<3>>), Choice("END_PLAYER_TURN")>>,
                         <<ActionChoice("BLOCK", <<>>, <<3>>)>>}}

\* The Block, Push and FollowUp decisions of the dispatcher model.
BlockGames ==
    {BlockGame("p2", "o1", choices, waiting, skills) :
        choices \in {<<Choice("SELECT_PUSH"), Choice("SELECT_DEFENDER_DOWN")>>,
                     <<Choice("USE_REROLL"), Choice("SELECT_BOTH_DOWN"),
                       Choice("SELECT_PUSH")>>,
                     <<Choice("SELECT_ATTACKER_DOWN"), Choice("SELECT_BOTH_DOWN")>>},
        waiting \in {"no"}, skills \in {{}, {"BLOCK"}}}
    \cup {BlockGame("p2", "o1", <<Choice("USE_SKILL"), Choice("DONT_USE_SKILL")>>, waiting, {}) :
            waiting \in {"juggernaut", "wrestle"}}
    \cup {BlockGame("o1", "p2", <<Choice("SELECT_PUSH"), Choice("SELECT_DEFENDER_DOWN")>>,
                    "no", {})}

PushGames ==
    {PushGame(positions, push_score) :
        positions \in {<<4>>, <<5, 4>>}, push_score \in {-500, 1000}}

FollowUpGames ==
    {FollowUpGame(positions, do_follow) :
        positions \in {<<2, 3>>, <<2>>}, do_follow \in BOOLEAN}

\* The decisions whose handlers read at most the offered choices.
SimpleGames ==
    {SimpleGame("CoinTossFlip", <<Choice("HEADS"), Choice("TAILS")>>),
     SimpleGame("CoinTossKickReceive", <<Choice("KICK"), Choice("RECEIVE")>>),
     SimpleGame("Apothecary", <<Choice("USE_APOTHECARY"), Choice("DONT_USE_APOTHECARY")>>),
     SimpleGame("Shadowing", <<Choice("USE_SKILL"), Choice("DONT_USE_SKILL")>>),
     SimpleGame("Interception",
                <<ActionChoice("SELECT_PLAYER", <<"p2", "p1">>, <<>>), Choice("SELECT_NONE")>>),
     SimpleGame("Interception", <<Choice("SELECT_NONE")>>)}

\* Decisions of procedures act has no branch for.
UnknownGames ==
    {SimpleGame("Unknown", choices) :
        choices \in {<<Choice("DONT_USE_SKILL"), Choice("USE_SKILL")>>,
                     <<ActionChoice("SELECT_PLAYER", <<"p2", "p1">>, <<4, 5>>),
                       Choice("SELECT_NONE")>>,
                     <<ActionChoice("PUSH", <<>>, <<5, 4>>)>>,
                     <<ActionChoice("SELECT_PLAYER", <<"p1">>, <<>>), Choice("USE_SKILL")>>,
                     <<Choice("SELECT_NONE"), ActionChoice("SELECT_PLAYER", <<"p1">>, <<>>)>>}}

Games ==
    TurnGames \cup PlayerActionGames \cup BlockGames \cup PushGames \cup FollowUpGames
    \cup SimpleGames \cup UnknownGames

-----------------------------------------------------------------------------
(* The dispatcher model: the framework calls act(game) at one decision     *)
(* point after another.                                                    *)

NoHeat == [fold |-> "none", players |-> <<>>, paths |-> [q \in AllPlayers |-> <<>>], n |-> 0]

NoPen == [done |-> FALSE]

\* RiskBot.__init__: debug False, current_move None, heat_map None.
Init ==
    /\ pc = "idle"
    /\ debug = FALSE
    /\ current_move = <<>>
    /\ heat_map = <<>>
    /\ game = BaseGame
    /\ handled = NotRun
    /\ result = NotRun
    /\ all_actions = <<>>
    /\ generated = <<>>
    /\ handed = <<>>
    /\ heat_prev = <<>>
    /\ heat_op = NoHeat
    /\ heat_op_prev = NoHeat
    /\ pen = NoPen

\* RiskBot.set_debug
SetDebug(dbg) ==
    /\ pc = "idle"
    /\ debug /= dbg
    /\ debug' = dbg
    /\ UNCHANGED <<pc, current_move, heat_map, game, handled, result, all_actions,
                   generated, handed, heat_prev, heat_op, heat_op_prev, pen>>

\* The framework reaches a decision of the bot's team and calls act.
DecisionPoint(g) ==
    /\ pc = "idle"
    /\ pc' = "called"
    /\ game' = g
    /\ UNCHANGED <<debug, current_move, heat_map, handled, result, all_actions,
                   generated, handed, heat_prev, heat_op, heat_op_prev, pen>>

\* The framework takes what act did and moves on.
Resume ==
    /\ pc = "returned"
    /\ pc' = "idle"
    /\ game' = BaseGame
    /\ handled' = NotRun
    /\ result' = NotRun
    /\ all_actions' = <<>>
    /\ UNCHANGED <<debug, current_move, heat_map, generated, handed,
                   heat_prev, heat_op, heat_op_prev, pen>>

\* The end of act for a handler that left the bot's fields as bot and did
\* outcome: the legality re-check, and act's own return or raise.
Finish(bot, outcome) ==
    /\ pc' = "returned"
    /\ current_move' = bot.current_move
    /\ heat_map' = bot.heat_map
    /\ all_actions' = bot.all_actions
    /\ handled' = outcome
    /\ result' = CheckReturned(outcome, game.available_actions, debug)
    /\ UNCHANGED <<debug, game, heat_prev, heat_op, heat_op_prev, pen>>

\* The bot's fields as a handler that does not touch them leaves them.
SameBot ==
    [current_move |-> current_move, heat_map |-> heat_map, all_actions |-> <<>>, error |-> ""]

StepsOf(cm) == IF cm = <<>> THEN <<>> ELSE cm[1].action_steps

StepOf(outcome) == IF outcome.kind = "action" THEN <<outcome.action>> ELSE <<>>

\* act at a Turn that is not a quick snap: turn(), or blitz(), which
\* calls turn().
ActTurn ==
    /\ pc = "called"
    /\ game.proc = "Turn"
    /\ ~game.quick_snap
    /\ LET selected == set_next_move(game)
           r == PopLeft(selected)
       IN /\ Finish(r.bot, r.outcome)
          /\ generated' = StepsOf(selected.current_move)
          /\ handed' = StepOf(r.outcome)

\* act at a quick-snap Turn.
ActQuickSnap ==
    /\ pc = "called"
    /\ game.proc = "Turn"
    /\ game.quick_snap
    /\ LET r == quick_snap(heat_map, <<>>)
       IN /\ Finish(r.bot, r.outcome)
          /\ generated' = <<>>
          /\ handed' = <<>>

\* act at a MoveAction or a BlockAction: player_action().
ActPlayerAction ==
    /\ pc = "called"
    /\ game.proc \in {"MoveAction", "BlockAction"}
    /\ LET reselect == current_move = <<>> \/ is_empty(current_move[1])
           selected == set_continuation_move(game, heat_map, get_num_unmoved(game))
           r == player_action(game, current_move, heat_map, <<>>)
       IN /\ Finish(r.bot, r.outcome)
          /\ generated' = IF reselect THEN StepsOf(selected.current_move) ELSE generated
          /\ handed' = IF reselect THEN StepOf(r.outcome) ELSE handed \o StepOf(r.outcome)

\* act at a Block, a Push or a FollowUp.
ActBlock ==
    /\ pc = "called"
    /\ game.proc = "Block"
    /\ Finish(SameBot, block(game))
    /\ UNCHANGED <<generated, handed>>

ActPush ==
    /\ pc = "called"
    /\ game.proc = "Push"
    /\ Finish(SameBot, push(game))
    /\ UNCHANGED <<generated, handed>>

ActFollowUp ==
    /\ pc = "called"
    /\ game.proc = "FollowUp"
    /\ Finish(SameBot, follow_up(game))
    /\ UNCHANGED <<generated, handed>>

\* act at an Interception.
ActInterception ==
    /\ pc = "called"
    /\ game.proc = "Interception"
    /\ Finish(SameBot, interception(game))
    /\ UNCHANGED <<generated, handed>>

\* act at a CoinTossFlip, CoinTossKickReceive, Apothecary or Shadowing.
ActFixed ==
    /\ pc = "called"
    /\ game.proc \in {"CoinTossFlip", "CoinTossKickReceive", "Apothecary", "Shadowing"}
    /\ Finish(SameBot, FixedHandler(game.proc))
    /\ UNCHANGED <<generated, handed>>

\* act at a procedure it has no branch for.
ActUnknown ==
    /\ pc = "called"
    /\ game.proc = "Unknown"
    /\ pc' = "returned"
    /\ handled' = NotRun
    /\ result' = UnknownProcedure(game.available_actions, debug)
    /\ all_actions' = <<>>
    /\ UNCHANGED <<debug, current_move, heat_map, game, generated, handed,
                   heat_prev, heat_op, heat_op_prev, pen>>

Act ==
    \/ ActTurn
    \/ ActQuickSnap
    \/ ActPlayerAction
    \/ ActBlock
    \/ ActPush
    \/ ActFollowUp
    \/ ActInterception
    \/ ActFixed
    \/ ActUnknown

Next ==
    \/ \E dbg \in BOOLEAN : SetDebug(dbg)
    \/ \E g \in Games : DecisionPoint(g)
    \/ Act
    \/ Resume

Spec == Init /\ [][Next]_vars

-----------------------------------------------------------------------------
(* Properties of the dispatcher model. *)

\* C1: in non-debug mode every action act returns is legal for the decision
\* point: its type is the type of an offered choice and, where that choice
\* lists players or positions, its player and position are among them.
C1_ReturnedActionIsLegal ==
    (pc = "returned" /\ ~debug /\ result.kind = "action")
        => IsLegal(result.action, game.available_actions)

\* C2: in non-debug mode act never raises and always returns an action, at
\* every procedure kind and every non-empty list of offered choices.
C2_ActNeverRaises ==
    (pc = "returned" /\ ~debug /\ game.available_actions /= <<>>)
        => result.kind = "action"

\* C5: the steps turn() and the player_action calls after it hand out,
\* followed by the steps still in current_move, are the steps of the selected
\* sequence in their original order: the front step is popped and nothing
\* else changes, and a fresh selection starts a fresh record.
C5_StepsHandedInOrder ==
    handed \o StepsOf(current_move) = generated

\* C5 happens: two steps of a selected sequence have been handed out and a
\* third is still to come.
C5_Witness ==
    /\ pc = "returned"
    /\ game.proc = "MoveAction"
    /\ Len(handed) = 2
    /\ StepsOf(current_move) /= <<>>
    /\ handled = Returned(handed[2])

\* C6: at a procedure act has no handler for, non-debug act returns
\* USE_SKILL if that type is offered and otherwise the first offered choice
\* with its first player and first position; debug act raises.
C6_UnknownProcedureCatchAll ==
    (pc = "returned" /\ game.proc = "Unknown") =>
        LET available_actions == game.available_actions
            first == available_actions[1]
        IN IF debug THEN result.kind = "raise"
           ELSE IF \E i \in 1..Len(available_actions) :
                       available_actions[i].action_type = "USE_SKILL"
           THEN result.kind = "action"
                /\ result.action = Action("USE_SKILL", NoPlayer, NoSquare)
           ELSE result.kind = "action"
                /\ result.action.action_type = first.action_type
                /\ result.action.player =
                       (IF first.players = <<>> THEN NoPlayer ELSE first.players[1])
                /\ result.action.position =
                       (IF first.positions = <<>> THEN NoSquare ELSE first.positions[1])

\* C6 happens: a non-debug act at an unknown procedure without USE_SKILL on
\* offer has returned the first choice with its first player and position.
C6_Witness ==
    /\ pc = "returned"
    /\ game.proc = "Unknown"
    /\ ~debug
    /\ "USE_SKILL" \notin AvailableActionTypes(game.available_actions)
    /\ result.kind = "action"
    /\ result.action.player /= NoPlayer
    /\ result.action.position /= NoSquare

\* C7: when set_next_move generates no candidate at all, turn() raises and
\* act raises with it: no action is returned.
C7_NoCandidatePropagates ==
    (pc = "returned" /\ game.proc = "Turn" /\ ~game.quick_snap /\ all_actions = <<>>)
        => handled.kind = "raise" /\ result = handled

\* C7 happens: a Turn whose offered choices yield no candidate has been
\* answered by a raise, in non-debug mode.
C7_Witness ==
    /\ pc = "returned"
    /\ game.proc = "Turn"
    /\ ~game.quick_snap
    /\ game.available_actions /= <<>>
    /\ all_actions = <<>>
    /\ ~debug
    /\ result.kind = "raise"

\* act is at a handler other than turn() and blitz(), the callers of
\* set_next_move.
NotSelecting == pc = "called" /\ ~(game.proc = "Turn" /\ ~game.quick_snap)

\* C11: player_action, set_continuation_move and every handler other than
\* set_next_move leave heat_map and both of its grids as they were, so a
\* continuation is scored on the map the last set_next_move built.
C11_HeatMapNotTouched == [][NotSelecting => heat_map' = heat_map]_vars

\* C11 happens: player_action has computed a continuation while the bot
\* held a heat map with paths folded in.
C11_Witness ==
    /\ pc = "returned"
    /\ game.proc = "MoveAction"
    /\ all_actions /= <<>>
    /\ heat_map /= <<>>
    /\ heat_map[1] /= NewHeatMap

\* set_next_move has run on the game: turn() was called for a Turn decision
\* that is not a quick snap.
SelectionRan == pc = "returned" /\ game.proc = "Turn" /\ ~game.quick_snap

\* The number of own units that have not acted, and the fraction
\* set_next_move weights a unit's improvement with (1 stands for 1.0).
NumUnacted == Len(PlayersToMove(game))
FractionUsed == FractionRealized(get_num_unmoved(game))

\* C19 as stated: the realization fraction is 1.0 whenever at least one own
\* unit is still unacted, and 0 only when no unit remains unacted.
C19_FractionOneWhileAnyUnacted ==
    SelectionRan =>
        /\ (NumUnacted >= 1 => FractionUsed = 1)
        /\ (FractionUsed = 0 => NumUnacted = 0)

\* C19 amended: the realization fraction is 0 exactly when one own unit
\* remains unacted, and 1.0 when two or more remain and when none does.
C19_FractionZeroForLastUnit ==
    SelectionRan =>
        /\ (NumUnacted /= 1 => FractionUsed = 1)
        /\ (NumUnacted = 1 => FractionUsed = 0)

\* C19 happens: set_next_move has run with exactly one own unit unacted,
\* that unit had candidates, and its fraction was 0.
C19_Witness ==
    /\ SelectionRan
    /\ NumUnacted = 1
    /\ FractionUsed = 0
    /\ \E i \in 1..Len(all_actions) : all_actions[i].player = PlayersToMove(game)[1]

-----------------------------------------------------------------------------
(* The selector model: turn() is applied once to each Turn decision of a   *)
(* larger menu, with a fresh bot.                                          *)

\* The most paths pathfinding answers for one unit.
MaxPaths == 2

RECURSIVE SeqsUpTo(_, _)
SeqsUpTo(S, n) ==
    IF n = 0 THEN {<<>>}
    ELSE LET shorter == SeqsUpTo(S, n - 1)
         IN shorter \cup {Append(q, x) : q \in {r \in shorter : Len(r) = n - 1}, x \in S}

\* The paths of p1, from square 1: a path whose only step is the unit's own
\* square becomes a sequence without a MOVE step.
SelectPaths ==
    {Path(<<1>>, 100, 100, TRUE), Path(<<1>>, 100, 300, TRUE), Path(<<1>>, 100, 300, FALSE),
     Path(<<4>>, 100, 50, TRUE), Path(<<4>>, 100, 100, TRUE), Path(<<4>>, 100, 105, TRUE),
     Path(<<4>>, 100, 300, TRUE),
     Path(<<4, 5>>, 100, 200, FALSE), Path(<<4, 5>>, 50, 3600, FALSE)}

SelectUnits1 ==
    {Unit(TRUE, TRUE, 0, paths) : paths \in SeqsUpTo(SelectPaths, MaxPaths)}
    \cup {Unit(FALSE, FALSE, stand_score, paths) :
            stand_score \in {50, 200},
            paths \in SeqsUpTo({Path(<<1, 4>>, 100, 100, TRUE),
                                Path(<<1, 4>>, 100, 300, TRUE),
                                Path(<<1>>, 100, 300, TRUE)}, MaxPaths)}

SelectUnits2 ==
    {Unit(TRUE, TRUE, 0, paths) :
        paths \in {<<>>, <<Path(<<5>>, 100, 100, TRUE)>>, <<Path(<<5>>, 50, 3600, TRUE)>>}}

SelectGames ==
    {TurnGame(u1, u2, used2, p2_blocks, with_end_turn, block_score, <<>>) :
        u1 \in SelectUnits1, u2 \in SelectUnits2, used2 \in BOOLEAN, p2_blocks \in BOOLEAN,
        with_end_turn \in {"last", "first", "none"},
        block_score \in {<<90, 90>>, <<400, 500>>}}

InitSelect ==
    /\ pc = "called"
    /\ debug = FALSE
    /\ current_move = <<>>
    /\ heat_map = <<>>
    /\ game \in SelectGames
    /\ handled = NotRun
    /\ result = NotRun
    /\ all_actions = <<>>
    /\ generated = <<>>
    /\ handed = <<>>
    /\ heat_prev = <<>>
    /\ heat_op = NoHeat
    /\ heat_op_prev = NoHeat
    /\ pen = NoPen

SpecSelect == InitSelect /\ [][ActTurn]_vars

\* The sequence set_next_move selected, as generated: <<>> when it selected
\* none.
Selected ==
    IF generated = <<>> THEN <<>>
    ELSE <<[current_move[1] EXCEPT !.action_steps = generated]>>

IsEndTurnCandidate(sequence) ==
    sequence.action_steps /= <<>> /\ sequence.action_steps[1].action_type = "END_TURN"

EndTurnIsCandidate ==
    \E k \in 1..Len(all_actions) : IsEndTurnCandidate(all_actions[k])

SelectionMade == pc = "returned" /\ Selected /= <<>>

\* C3 as stated: the END_TURN candidate scores 1.0 and, with END_TURN among
\* the candidates, no candidate scoring 1.0 or less is selected in its place.
C3_NeverAtOrBelowEndTurn ==
    /\ \A k \in 1..Len(all_actions) :
           IsEndTurnCandidate(all_actions[k]) => all_actions[k].immediate_score = 100
    /\ (SelectionMade /\ EndTurnIsCandidate /\ ~IsEndTurnCandidate(Selected[1]))
           => Selected[1].immediate_score > 100

\* C3: the END_TURN candidate scores 1.0 and, with END_TURN among the
\* candidates, no candidate scoring strictly below 1.0 is selected in its
\* place; a candidate scoring exactly 1.0 can be.
C3_NeverBelowEndTurn ==
    /\ \A k \in 1..Len(all_actions) :
           IsEndTurnCandidate(all_actions[k]) => all_actions[k].immediate_score = 100
    /\ (SelectionMade /\ EndTurnIsCandidate /\ ~IsEndTurnCandidate(Selected[1]))
           => Selected[1].immediate_score >= 100

\* C3 happens: END_TURN was selected although another candidate was on the
\* list, one scoring below 1.0.
C3_Witness ==
    /\ SelectionMade
    /\ IsEndTurnCandidate(Selected[1])
    /\ \E k \in 1..Len(all_actions) :
           ~IsEndTurnCandidate(all_actions[k]) /\ all_actions[k].immediate_score < 100

\* The sequences is_do_nothing recognises.
Recognised(sequence) ==
    \/ /\ Len(sequence.action_steps) = 2
       /\ sequence.action_steps[1].action_type = "START_MOVE"
       /\ sequence.action_steps[2].action_type = "END_PLAYER_TURN"
    \/ /\ Len(sequence.action_steps) = 1
       /\ sequence.action_steps[1].action_type = "START_MOVE"

\* The stand-and-end-turn sequence.
StandAndEnd(sequence) ==
    /\ Len(sequence.action_steps) = 3
    /\ sequence.action_steps[1].action_type = "START_MOVE"
    /\ sequence.action_steps[2].action_type = "STAND_UP"
    /\ sequence.action_steps[3].action_type = "END_PLAYER_TURN"

\* C4 as stated: no do-nothing sequence of a unit, the stand-and-end-turn
\* sequence included, is selected when the unit has a candidate that is not
\* a do-nothing sequence.
C4_NoDoNothingWithAlternative ==
    (SelectionMade /\ (Recognised(Selected[1]) \/ StandAndEnd(Selected[1])))
        => ~\E k \in 1..Len(all_actions) :
               /\ all_actions[k].player = Selected[1].player
               /\ ~Recognised(all_actions[k])
               /\ ~StandAndEnd(all_actions[k])

\* The unit is offered START_MOVE and nothing else, and pathfinding found no
\* path for it; no unit of the model is on the ball.
BoxedIn(q) ==
    /\ pc = "returned"
    /\ \E i \in 1..Len(game.available_actions) :
           /\ game.available_actions[i].action_type = "START_MOVE"
           /\ q \in RangeOf(game.available_actions[i].players)
    /\ game.paths[q] = <<>>
    /\ ~HasBall(game, q)

\* C12 as stated: a boxed-in unit still gets exactly one candidate, the
\* stand-and-end-turn or the start-move-plus-end-turn sequence.
C12_BoxedInUnitHasOneCandidate ==
    \A q \in RangeOf(OwnPlayers) :
        BoxedIn(q) =>
            /\ Len(ActionsOf(all_actions, q)) = 1
            /\ StandAndEnd(ActionsOf(all_actions, q)[1])
                 \/ Recognised(ActionsOf(all_actions, q)[1])

\* C12: a boxed-in unit without a tackle zone gets exactly one candidate,
\* the stand-and-end-turn sequence; a boxed-in unit that has its tackle zone
\* gets no candidate at all.
C12_BoxedInUnitStandsOrNothing ==
    \A q \in RangeOf(OwnPlayers) :
        BoxedIn(q) =>
            IF game.tackle_zone[q] THEN ActionsOf(all_actions, q) = <<>>
            ELSE /\ Len(ActionsOf(all_actions, q)) = 1
                 /\ StandAndEnd(ActionsOf(all_actions, q)[1])

\* C12 happens: one boxed-in unit without a tackle zone got its stand-up
\* candidate and another, with its tackle zone, got none.
C12_Witness ==
    /\ BoxedIn("p1") /\ ~game.tackle_zone["p1"] /\ Len(ActionsOf(all_actions, "p1")) = 1
    /\ BoxedIn("p2") /\ game.tackle_zone["p2"] /\ ActionsOf(all_actions, "p2") = <<>>

\* The primary selection ends with best_move None: no unit's net value
\* reaches the baseline "1.1 - sum_improvement".
PrimaryDeclines == pc = "returned" /\ PrimarySelection(game, all_actions) = <<>>

Mine(q) == ActionsOf(all_actions, q)

BestImmediate(q) == MaxOf({Mine(q)[k].immediate_score : k \in 1..Len(Mine(q))}, 0)

BestDelayed(q) == MaxOf({Mine(q)[k].delayed_score : k \in 1..Len(Mine(q))}, 0)

BestImmediateCandidate(q) ==
    Mine(q)[CHOOSE k \in 1..Len(Mine(q)) :
                /\ Mine(q)[k].immediate_score = BestImmediate(q)
                /\ \A j \in 1..(k - 1) : Mine(q)[j].immediate_score < BestImmediate(q)]

\* The places, in iteration order, of the units still to act whose best
\* immediate score is at least 1.1 and not that of a do-nothing candidate.
Eligible ==
    {i \in 1..Len(PlayersToMove(game)) :
        /\ BestImmediate(PlayersToMove(game)[i]) >= 110
        /\ ~is_do_nothing(BestImmediateCandidate(PlayersToMove(game)[i]))}

\* best_immediate - (best_delayed - best_immediate) * realization_fraction
NetValue(i) ==
    LET q == PlayersToMove(game)[i]
    IN BestImmediate(q)
       - (BestDelayed(q) - BestImmediate(q)) * FractionRealized(get_num_unmoved(game))

-----------------------------------------------------------------------------
(* The fallback model: the fallback of set_next_move, a pass of its loop   *)
(* at a time, on each Turn decision of the selector model at which the     *)
(* primary selection declines.  Here all_actions is the local list the     *)
(* loop pops from.                                                         *)

FallbackGames ==
    {g \in SelectGames :
        /\ GenerateCandidates(g) /= <<>>
        /\ PrimarySelection(g, GenerateCandidates(g)) = <<>>}

InitFallback ==
    /\ pc = "not found"
    /\ debug = FALSE
    /\ current_move = <<>>
    /\ heat_map = <<>>
    /\ game \in FallbackGames
    /\ handled = NotRun
    /\ result = NotRun
    /\ all_actions = <<>>
    /\ generated = <<>>
    /\ handed = <<>>
    /\ heat_prev = <<>>
    /\ heat_op = NoHeat
    /\ heat_op_prev = NoHeat
    /\ pen = NoPen

\* "if not found: all_actions.sort(key=..., reverse=True)"
FallbackSort ==
    /\ pc = "not found"
    /\ all_actions' = SortByImmediate(GenerateCandidates(game))
    /\ pc' = "while not found"
    /\ UNCHANGED <<debug, current_move, heat_map, game, handled, result, generated,
                   handed, heat_prev, heat_op, heat_op_prev, pen>>

\* A pass of the loop over a list that still has a candidate.
FallbackPop ==
    /\ pc = "while not found"
    /\ all_actions /= <<>>
    /\ LET pass == FallbackStep(all_actions)
       IN /\ all_actions' = pass.all_actions
          /\ current_move' = <<pass.best_move>>
          /\ pc' = IF pass.found THEN "found" ELSE "while not found"
    /\ UNCHANGED <<debug, heat_map, game, handled, result, generated,
                   handed, heat_prev, heat_op, heat_op_prev, pen>>

\* A pass of the loop over an empty list: pop(0) raises IndexError.
FallbackPopEmpty ==
    /\ pc = "while not found"
    /\ all_actions = <<>>
    /\ pc' = "IndexError"
    /\ UNCHANGED <<debug, current_move, heat_map, game, handled, result, all_actions,
                   generated, handed, heat_prev, heat_op, heat_op_prev, pen>>

FallbackNext == FallbackSort \/ FallbackPop \/ FallbackPopEmpty

\* The interpreter runs the loop on: a pass that can be taken is taken.
SpecFallback ==
    InitFallback /\ [][FallbackNext]_vars /\ WF_vars(FallbackPop \/ FallbackPopEmpty)

\* The candidates the fallback was entered with.
Candidates == RangeOf(GenerateCandidates(game))

EndTurnOffered == \E a \in Candidates : IsEndTurnCandidate(a)

\* The candidate the loop ended on was reached in descending order of the
\* immediate score, past do-nothing candidates and the units they took
\* with them, and its own unit was not taken out before it.
TakenInOrder(best_move) ==
    /\ \A a \in Candidates :
          a.immediate_score > best_move.immediate_score =>
              \/ is_do_nothing(a)
              \/ \E b \in Candidates :
                    /\ b.player = a.player
                    /\ is_do_nothing(b)
                    /\ b.immediate_score >= a.immediate_score
    /\ \A b \in Candidates :
          b.player = best_move.player /\ is_do_nothing(b) =>
              b.immediate_score <= best_move.immediate_score

-----------------------------------------------------------------------------
(* The continuation model: player_action is applied once to a MoveAction   *)
(* decision of p1, with current_move None, emptied, or holding a step.     *)

ContinuePaths ==
    {Path(<<4>>, 100, 300, TRUE), Path(<<4>>, 100, 50, TRUE), Path(<<4>>, 50, 3600, TRUE),
     Path(<<4, 5>>, 90, 2900, FALSE), Path(<<1, 4>>, 100, 200, TRUE)}

ContinueChoices ==
    {<<ActionChoice("MOVE", <<>>, <<4>>)>>,
     <<ActionChoice("MOVE", <<>>, <<4>>), Choice("END_PLAYER_TURN")>>,
     <<Choice("END_PLAYER_TURN"), ActionChoice("MOVE", <<>>, <<4>>)>>,
     <<Choice("END_PLAYER_TURN")>>,
     <<Choice("STAND_UP"), Choice("END_PLAYER_TURN")>>}

ContinueGames ==
    {[PlayerActionGame("MoveAction", "p1", choices, paths, up)
         EXCEPT !.used["p2"] = used2, !.turn = team_turn, !.tackle_zone["p1"] = up,
                !.stand_score["p1"] = 200] :
        choices \in ContinueChoices, paths \in SeqsUpTo(ContinuePaths, MaxPaths),
        up \in BOOLEAN, used2 \in BOOLEAN, team_turn \in {1, 8}}

\* What is left of the sequence the unit is carrying out.
LeftOfMove ==
    {<<>>, <<ActionSequence(<<>>, "p1", 300, 300)>>,
     <<ActionSequence(<<Action("MOVE", NoPlayer, 4)>>, "p1", 300, 300)>>}

InitContinue ==
    /\ pc = "called"
    /\ debug = FALSE
    /\ current_move \in LeftOfMove
    /\ game \in ContinueGames
    /\ heat_map = <<BuildHeatMap(game)>>
    /\ handled = NotRun
    /\ result = NotRun
    /\ all_actions = <<>>
    /\ generated = StepsOf(current_move)
    /\ handed = <<>>
    /\ heat_prev = <<>>
    /\ heat_op = NoHeat
    /\ heat_op_prev = NoHeat
    /\ pen = NoPen

SpecContinue == InitContinue /\ [][ActPlayerAction]_vars

\* player_action has scored a continuation: set_continuation_move found
\* candidates.
Reselected ==
    pc = "returned" /\ game.proc \in {"MoveAction", "BlockAction"} /\ all_actions /= <<>>

\* The sequence set_continuation_move selected, as it was generated.
Continuation == [current_move[1] EXCEPT !.action_steps = generated]

EndPlayerTurnOffered ==
    \E i \in 1..Len(game.available_actions) :
        game.available_actions[i].action_type = "END_PLAYER_TURN"

\* C21: the continuation player_action selects is a candidate of the active
\* unit with the highest immediate score of all the candidates, whatever
\* their delayed scores; all the candidates are the active unit's; and with
\* END_PLAYER_TURN offered its immediate score is not below 1.0.
C21_ContinuationTakesTopImmediate ==
    Reselected =>
        /\ \E k \in 1..Len(all_actions) : all_actions[k] = Continuation
        /\ \A k \in 1..Len(all_actions) :
              /\ all_actions[k].immediate_score <= Continuation.immediate_score
              /\ all_actions[k].player = game.active_player
        /\ EndPlayerTurnOffered => Continuation.immediate_score >= 100

\* C21 happens: with another unit still to act, the continuation selected
\* is not the candidate with the best delayed score, and END_PLAYER_TURN
\* was offered.
C21_Witness ==
    /\ Reselected
    /\ get_num_unmoved(game) > 0
    /\ EndPlayerTurnOffered
    /\ \E k \in 1..Len(all_actions) :
          all_actions[k].delayed_score > Continuation.delayed_score

-----------------------------------------------------------------------------
(* The intent model: score_move is applied to a move of p1 to one of the   *)
(* two free squares, and potential_move_actions to its paths to both, with *)
(* the ball off the pitch, loose on square 4, or held by one of the three  *)
(* units.  Here result is what score_move returned and all_actions its     *)
(* list of entries, or the candidates potential_move_actions generated.    *)

IntentGame(ball_square, team_turn, opp_turn, receiver, to_ball, screen, offensive, mark) ==
    [BaseGame EXCEPT
        !.proc = "Turn",
        !.available_actions = TurnChoices(<<"p1", "p2">>, <<>>, <<>>, "last"),
        !.ball_square = ball_square,
        !.turn = team_turn,
        !.opp_turn = opp_turn,
        !.moves_left = [q \in AllPlayers |-> IF q = "o1" THEN 3 ELSE 0],
        !.paths["p1"] = <<Path(<<4>>, 100, 0, TRUE), Path(<<4, 5>>, 100, 0, TRUE)>>,
        !.rest_of =
            [intent \in Intents |->
                [sq \in Squares |->
                    CASE intent = "move to receiver" -> receiver
                      [] intent = "move to ball" -> to_ball
                      [] intent = "move toward ball" -> 4500
                      [] intent = "move to defensive screen" -> screen
                      [] intent = "move to offsensive screen" -> offensive
                      [] intent = "move to cage" -> 6000
                      [] intent = "move to mark opponent" -> mark
                      [] OTHER -> 0]]]

IntentGames ==
    {IntentGame(ball_square, team_turn, opp_turn, receiver, to_ball, screen, offensive, mark) :
        ball_square \in {NoSquare, 1, 2, 3, 4}, team_turn \in {1, 8}, opp_turn \in {1, 8},
        receiver \in {0, 6500, 7000}, to_ball \in {-500, 6500}, screen \in {-1000, 6500},
        offensive \in {0, 6000}, mark \in {0, 6500}}

InitIntent ==
    /\ pc = "idle"
    /\ debug = FALSE
    /\ current_move = <<>>
    /\ game \in IntentGames
    /\ heat_map = <<BuildHeatMap(game)>>
    /\ handled = NotRun
    /\ result = NotRun
    /\ all_actions = <<>>
    /\ generated = <<>>
    /\ handed = <<>>
    /\ heat_prev = <<>>
    /\ heat_op = NoHeat
    /\ heat_op_prev = NoHeat
    /\ pen = NoPen

\* score_move for a move of p1 to to_square along a path of probability 1.
ApplyScoreMove(to_square) ==
    /\ pc = "idle"
    /\ pc' = "scored"
    /\ all_actions' = ScoreEntries(game, heat_map[1], "p1", to_square, 100, 0)
    /\ result' = [to_square |-> to_square,
                  score |-> score_move(game, heat_map[1], "p1", to_square, 100, 0),
                  is_complete |->
                      score_move_is_complete(game, heat_map[1], "p1", to_square, 100, 0),
                  description |->
                      score_move_description(game, heat_map[1], "p1", to_square, 100, 0)]
    /\ UNCHANGED <<debug, current_move, heat_map, game, handled, generated, handed,
                   heat_prev, heat_op, heat_op_prev, pen>>

\* "action_score, is_complete, description = BotHelper.score_move(...)" in
\* the loop of potential_move_actions: the paths of a unit with what
\* score_move answers for the last square of each.
ScoredPaths(g, hm, player, current_ball_control) ==
    [i \in 1..Len(g.paths[player]) |->
        LET path == g.paths[player][i]
        IN Path(path.steps, path.prob,
                score_move(g, hm, player, LastStep(path), path.prob, current_ball_control),
                score_move_is_complete(g, hm, player, LastStep(path), path.prob,
                                       current_ball_control))]

\* potential_move_actions for p1 at the Turn.
ApplyMoveActions ==
    /\ pc = "idle"
    /\ pc' = "generated"
    /\ all_actions' = potential_move_actions(game, "p1",
                                             ScoredPaths(game, heat_map[1], "p1", 0),
                                             get_num_unmoved(game),
                                             game.do_nothing_score["p1"], FALSE)
    /\ UNCHANGED <<debug, current_move, heat_map, game, handled, result, generated, handed,
                   heat_prev, heat_op, heat_op_prev, pen>>

NextIntent == (\E to_square \in {4, 5} : ApplyScoreMove(to_square)) \/ ApplyMoveActions

SpecIntent == InitIntent /\ [][NextIntent]_vars

\* The move candidates generated, the square each ends on, and whether it
\* ends the unit's turn.
MoveCandidates ==
    {a \in RangeOf(all_actions) :
        \E i \in 1..Len(a.action_steps) : a.action_steps[i].action_type = "MOVE"}

Destination(a) ==
    LET last == CHOOSE i \in 1..Len(a.action_steps) :
                    /\ a.action_steps[i].action_type = "MOVE"
                    /\ \A j \in (i + 1)..Len(a.action_steps) :
                          a.action_steps[j].action_type /= "MOVE"
    IN a.action_steps[last].position

EndsPlayerTurn(a) == a.action_steps[Len(a.action_steps)].action_type = "END_PLAYER_TURN"

LooseBallAt(square) == game.ball_square = square /\ BallCarrier(game) = NoPlayer

CompleteAt(square) == score_move_is_complete(game, heat_map[1], "p1", square, 100, 0)

DescriptionAt(square) == score_move_description(game, heat_map[1], "p1", square, 100, 0)

\* C22 as stated: a move candidate that ends on the square of a loose ball
\* never ends with END_PLAYER_TURN, and any other move candidate ends with
\* END_PLAYER_TURN exactly when score_move reports is_complete.
C22_LooseBallMoveNeverEndsTurn ==
    pc = "generated" =>
        \A a \in MoveCandidates :
            IF LooseBallAt(Destination(a)) THEN ~EndsPlayerTurn(a)
            ELSE EndsPlayerTurn(a) <=> CompleteAt(Destination(a))

\* C22 amended: every move candidate ends with END_PLAYER_TURN exactly when
\* score_move reports is_complete for its last square, and a move candidate
\* that ends on the square of a loose ball does not end with
\* END_PLAYER_TURN when "move to ball" is the entry score_move took.
C22_EndsTurnWhenComplete ==
    pc = "generated" =>
        \A a \in MoveCandidates :
            /\ EndsPlayerTurn(a) <=> CompleteAt(Destination(a))
            /\ LooseBallAt(Destination(a)) /\ DescriptionAt(Destination(a)) = "move to ball"
                   => ~EndsPlayerTurn(a)

\* C22 happens: of the candidates generated, one ends on the square of the
\* loose ball and not with END_PLAYER_TURN, and another ends with it.
C22_Witness ==
    /\ pc = "generated"
    /\ \E a, b \in MoveCandidates :
          /\ LooseBallAt(Destination(a))
          /\ DescriptionAt(Destination(a)) = "move to ball"
          /\ ~EndsPlayerTurn(a)
          /\ EndsPlayerTurn(b)

\* The adjustments score_move made to the score it returned taken out.
BaseValue == result.score - MoveAdjustments(game, "p1", result.to_square)

\* The score returned is the best of the scores in entries, and the
\* is_complete and description are those of the first entry with it.
TakesFirstBestOf(entries) ==
    \E k \in 1..Len(entries) :
        /\ entries[k].score = BaseValue
        /\ entries[k].is_complete = result.is_complete
        /\ entries[k].description = result.description
        /\ \A j \in 1..Len(entries) : entries[j].score <= BaseValue
        /\ \A j \in 1..(k - 1) : entries[j].score < BaseValue

\* C23 as stated: the base value is the best of the scores of the nine
\* intents, the first declared winning a tie, and is_complete and the label
\* are those of that intent.
C23_BestOfNineIntents ==
    pc = "scored" =>
        TakesFirstBestOf(IntentAnswers(game, heat_map[1], "p1", result.to_square, 100, 0))

\* C23 amended: the base value is the best of the scores of the nine
\* entries of the list, which are the answers of the nine intents except
\* that with scoring impossible the first five are 0, complete and without
\* a label; the first entry wins a tie, and is_complete and the label are
\* those of that entry.
C23_BestOfNineEntries ==
    pc = "scored" =>
        /\ TakesFirstBestOf(all_actions)
        /\ Len(all_actions) = 9
        /\ \A i \in 1..9 :
              all_actions[i] =
                  IF scoring_impossible(game) /\ i <= 5
                  THEN [score |-> 0, is_complete |-> TRUE, description |-> ""]
                  ELSE IntentAnswers(game, heat_map[1], "p1", result.to_square, 100, 0)[i]

\* C23 happens: two entries tie for the best score, and the score, the
\* is_complete and the label returned are those of the first of them,
\* which differ from those of the second.
C23_Witness ==
    /\ pc = "scored"
    /\ \E j, k \in 1..Len(all_actions) :
          /\ j < k
          /\ all_actions[j].score = BaseValue
          /\ all_actions[k].score = BaseValue
          /\ all_actions[j].description = result.description
          /\ all_actions[j].is_complete /= all_actions[k].is_complete
          /\ \A i \in 1..(j - 1) : all_actions[i].score < BaseValue

-----------------------------------------------------------------------------
(* The trimming model: the futile-path test of one of the five generators  *)
(* is applied to the paths of p1.  Here result is the generator and the    *)
(* paths it kept, and all_actions the candidates of potential_move_actions *)
(* when the generator is that one.                                         *)

Generators == {"move", "foul", "blitz", "pass", "handoff"}

TrimPaths == {Path(<<4>>, prob, 300, TRUE) : prob \in {0, 25, 50, 100}}

TrimPathLists == SeqsUpTo(TrimPaths, MaxPaths)

TrimGames ==
    {[BaseGame EXCEPT
         !.proc = "Turn",
         !.available_actions = TurnChoices(<<"p1">>, <<>>, <<>>, "last"),
         !.turn = team_turn,
         !.used["p2"] = used2,
         !.fall_down_value["p1"] = fall_down_value,
         !.paths["p1"] = paths] :
        team_turn \in {1, 8}, used2 \in BOOLEAN, fall_down_value \in {0, 100, 200},
        paths \in TrimPathLists}

InitTrim ==
    /\ pc = "idle"
    /\ debug = FALSE
    /\ current_move = <<>>
    /\ heat_map = <<>>
    /\ game \in TrimGames
    /\ handled = NotRun
    /\ result = NotRun
    /\ all_actions = <<>>
    /\ generated = <<>>
    /\ handed = <<>>
    /\ heat_prev = <<>>
    /\ heat_op = NoHeat
    /\ heat_op_prev = NoHeat
    /\ pen = NoPen

ApplyTrim(generator) ==
    /\ pc = "idle"
    /\ pc' = "trimmed"
    /\ result' = [generator |-> generator,
                  kept |-> TrimFutile(game, "p1", game.paths["p1"],
                                      get_num_unmoved(game), generator)]
    /\ all_actions' =
          IF generator = "move"
          THEN potential_move_actions(game, "p1", game.paths["p1"], get_num_unmoved(game),
                                      game.do_nothing_score["p1"], FALSE)
          ELSE <<>>
    /\ UNCHANGED <<debug, current_move, heat_map, game, handled, generated, handed,
                   heat_prev, heat_op, heat_op_prev, pen>>

NextTrim == \E generator \in Generators : ApplyTrim(generator)

SpecTrim == InitTrim /\ [][NextTrim]_vars

\* turnover_cost * (1 - path.prob) in points times a percentage, from the
\* base scores: -30 - 37 for each other unit still to act - what the unit
\* is worth lying down.
FailureCost(path) ==
    (-30 - 37 * (Len(PlayersToMove(game)) - 1) - game.fall_down_value["p1"])
    * (100 - path.prob)

Discarded(path) ==
    /\ game.turn /= 8
    /\ FailureCost(path) <
          100 * (IF result.generator \in {"move", "foul"} THEN -100
                 ELSE IF result.generator = "blitz" THEN -150 ELSE -200)

\* C24: on the team's turn 8 a generator keeps every path; on another turn
\* it discards a path exactly when turnover_cost * (1 - path.prob) is below
\* its threshold (-100 move and foul, -150 blitz, -200 pass and hand-off);
\* a path of probability 1.0 is kept, and potential_move_actions makes a
\* candidate of each path it keeps.
C24_FutilePathsTrimmed ==
    pc = "trimmed" =>
        /\ result.kept = SelectSeq(game.paths["p1"], LAMBDA path : ~Discarded(path))
        /\ game.turn = 8 => result.kept = game.paths["p1"]
        /\ \A i \in 1..Len(game.paths["p1"]) :
              game.paths["p1"][i].prob = 100 =>
                  \E k \in 1..Len(result.kept) : result.kept[k] = game.paths["p1"][i]
        /\ result.generator = "move" => Len(all_actions) = Len(result.kept)

\* C24 happens: on a turn other than 8 a generator has discarded one path
\* and kept another, and the same paths were all kept on turn 8.
C24_Witness ==
    /\ pc = "trimmed"
    /\ game.turn /= 8
    /\ result.kept /= <<>>
    /\ Len(result.kept) < Len(game.paths["p1"])
    /\ result.generator = "blitz"

-----------------------------------------------------------------------------
(* The path-conversion model: path_to_move_actions is applied to one path  *)
(* of p1, with the assertions on or off.  Here result is what it raised    *)
(* and the actions it returned.                                            *)

\* Paths of one, two and three steps, from the own square of p1 or from
\* the free square 4.
StepLists ==
    {<<to>> : to \in Squares}
    \cup {<<from, to>> : from \in {1, 4}, to \in Squares}
    \cup {<<from, 4, to>> : from \in {1, 5}, to \in Squares}

MarkedPaths ==
    {MarkedPath(steps, block_dice, handoff_roll, foul_roll) :
        steps \in StepLists, block_dice \in {<<>>, <<2>>},
        handoff_roll \in {<<>>, <<3>>}, foul_roll \in {<<>>, <<1>>}}

ConvertGames ==
    {[BaseGame EXCEPT
         !.proc = "PlayerAction",
         !.active_player = active_player,
         !.active_team = active_team,
         !.action_allowed = action_allowed,
         !.up = up,
         !.paths["p1"] = <<path>>] :
        active_player \in {NoPlayer, "p1"}, active_team \in {"own", "opp"},
        action_allowed \in BOOLEAN, up \in [AllPlayers -> BOOLEAN], path \in MarkedPaths}

InitConvert ==
    /\ pc = "idle"
    /\ debug = FALSE
    /\ current_move = <<>>
    /\ heat_map = <<>>
    /\ game \in ConvertGames
    /\ handled = NotRun
    /\ result = NotRun
    /\ all_actions = <<>>
    /\ generated = <<>>
    /\ handed = <<>>
    /\ heat_prev = <<>>
    /\ heat_op = NoHeat
    /\ heat_op_prev = NoHeat
    /\ pen = NoPen

ApplyPathToMoveActions(do_assertions) ==
    /\ pc = "idle"
    /\ pc' = IF do_assertions THEN "asserted" ELSE "unasserted"
    /\ result' = path_to_move_actions(game, "p1", game.paths["p1"][1], do_assertions)
    /\ UNCHANGED <<debug, current_move, heat_map, game, handled, all_actions, generated,
                   handed, heat_prev, heat_op, heat_op_prev, pen>>

NextConvert == \E do_assertions \in BOOLEAN : ApplyPathToMoveActions(do_assertions)

SpecConvert == InitConvert /\ [][NextConvert]_vars

Converted == pc \in {"asserted", "unasserted"}

ThePath == game.paths["p1"][1]

TheSteps == ThePath.steps

Target == TheSteps[Len(TheSteps)]

\* The intent of the path, block before hand-off before foul before move.
Intent ==
    CASE ThePath.block_dice /= <<>> -> "BLOCK"
      [] ThePath.block_dice = <<>> /\ ThePath.handoff_roll /= <<>> -> "HANDOFF"
      [] ThePath.block_dice = <<>> /\ ThePath.handoff_roll = <<>>
         /\ ThePath.foul_roll /= <<>> -> "FOUL"
      [] OTHER -> "MOVE"

Occupant == PlayerAt(Target)

\* The occupant of the destination is what the intent needs.
OccupantMatches ==
    CASE Intent = "BLOCK" ->
             Occupant /= NoPlayer /\ TeamOf(Occupant) /= game.active_team /\ game.up[Occupant]
      [] Intent = "HANDOFF" ->
             Occupant /= NoPlayer /\ TeamOf(Occupant) = game.active_team /\ game.up[Occupant]
      [] Intent = "FOUL" ->
             Occupant /= NoPlayer /\ TeamOf(Occupant) /= game.active_team /\ ~game.up[Occupant]
      [] Intent = "MOVE" -> Occupant = NoPlayer \/ Occupant = game.active_player

StandsUpFirst == ~game.up["p1"] /\ TheSteps[1] = PositionOf("p1")

\* The returned list ends on the terminal action, is that action alone when
\* it is directly legal, and is otherwise of the given length: STAND_UP in
\* place of the first step for a unit lying on the path's first square,
\* MOVE for every other step but the last.
ConvertedTo(length) ==
    LET actions == result.actions
    IN /\ result.raised = ""
       /\ actions /= <<>>
       /\ actions[Len(actions)] = Action(Intent, NoPlayer, Target)
       /\ game.action_allowed => Len(actions) = 1
       /\ ~game.action_allowed =>
             /\ Len(actions) = length
             /\ \A i \in 1..(Len(actions) - 1) :
                   IF i = 1 /\ StandsUpFirst
                   THEN actions[i] = Action("STAND_UP", "p1", NoSquare)
                   ELSE actions[i]
                        = Action("MOVE", NoPlayer, TheSteps[i + Len(TheSteps) - Len(actions)])

\* C25 as stated: path_to_move_actions fails exactly when the assertions are
\* on and the occupant of the destination does not match the intent, and
\* otherwise returns the terminal action alone when it is directly legal
\* and else exactly len(path.steps) steps.
C25_AsManyStepsAsThePath ==
    Converted =>
        IF pc = "asserted" /\ ~OccupantMatches THEN result.raised /= ""
        ELSE ConvertedTo(Len(TheSteps))

\* C25: as above, but a path that is only the own square of a unit lying
\* down gives two steps, STAND_UP and the terminal action, when the
\* terminal action is not directly legal.
C25_StepsOfThePath ==
    Converted =>
        IF pc = "asserted" /\ ~OccupantMatches THEN result.raised /= ""
        ELSE ConvertedTo(IF StandsUpFirst /\ Len(TheSteps) = 1 THEN 2 ELSE Len(TheSteps))

\* C25 happens: a blitz path of three steps from the own square of a unit
\* lying down, ending on a standing opponent, has passed the assertions and
\* become STAND_UP, MOVE, BLOCK.
C25_Witness ==
    /\ pc = "asserted"
    /\ StandsUpFirst
    /\ Len(TheSteps) = 3
    /\ Intent = "BLOCK"
    /\ Len(result.actions) = 3
    /\ result.actions[1].action_type = "STAND_UP"
    /\ result.actions[3].action_type = "BLOCK"

-----------------------------------------------------------------------------
(* The block-die model: block() is applied to the dice of one block, p2    *)
(* blocking o1 or o1 blocking p2.  Here result is what block() returned.   *)

DieFaces ==
    {"SELECT_ATTACKER_DOWN", "SELECT_BOTH_DOWN", "SELECT_PUSH",
     "SELECT_DEFENDER_STUMBLES", "SELECT_DEFENDER_DOWN"}

\* One die, or two different faces in either order.
DiceOffered ==
    {<<Choice(a)>> : a \in DieFaces}
    \cup {<<Choice(faces[1]), Choice(faces[2])>> :
            faces \in {pair \in DieFaces \X DieFaces : pair[1] /= pair[2]}}

DieGames ==
    {[BlockGame(sides[1], sides[2], choices, "no", attacker_skills)
         EXCEPT !.skills[sides[2]] = defender_skills] :
        sides \in {<<"p2", "o1">>, <<"o1", "p2">>}, choices \in DiceOffered,
        attacker_skills \in {{}, {"BLOCK"}, {"TACKLE"}},
        defender_skills \in {{}, {"BLOCK"}, {"DODGE"}}}

InitDie ==
    /\ pc = "idle"
    /\ debug = FALSE
    /\ current_move = <<>>
    /\ heat_map = <<>>
    /\ game \in DieGames
    /\ handled = NotRun
    /\ result = NotRun
    /\ all_actions = <<>>
    /\ generated = <<>>
    /\ handed = <<>>
    /\ heat_prev = <<>>
    /\ heat_op = NoHeat
    /\ heat_op_prev = NoHeat
    /\ pen = NoPen

ApplyBlock ==
    /\ pc = "idle"
    /\ pc' = "blocked"
    /\ result' = block(game)
    /\ UNCHANGED <<debug, current_move, heat_map, game, handled, all_actions, generated,
                   handed, heat_prev, heat_op, heat_op_prev, pen>>

SpecDie == InitDie /\ [][ApplyBlock]_vars

\* How good a die face is for the side of the bot, from the two tables of
\* block_favourability: the first when the bot's unit is the attacker, the
\* second when it is the defender.
OwnSideFavourability(face) ==
    LET a_block == "BLOCK" \in game.skills[game.attacker]
        d_block == "BLOCK" \in game.skills[game.defender]
        pushed == "DODGE" \in game.skills[game.defender]
                  /\ "TACKLE" \notin game.skills[game.attacker]
    IN IF TeamOf(game.attacker) = "own"
       THEN CASE face = "SELECT_DEFENDER_DOWN" -> 6
              [] face = "SELECT_DEFENDER_STUMBLES" -> IF pushed THEN 4 ELSE 6
              [] face = "SELECT_PUSH" -> 4
              [] face = "SELECT_BOTH_DOWN" ->
                     IF a_block THEN (IF d_block THEN 3 ELSE 5)
                     ELSE (IF d_block THEN 1 ELSE 2)
              [] face = "SELECT_ATTACKER_DOWN" -> 1
       ELSE CASE face = "SELECT_DEFENDER_DOWN" -> 1
              [] face = "SELECT_DEFENDER_STUMBLES" -> IF pushed THEN 3 ELSE 1
              [] face = "SELECT_PUSH" -> 3
              [] face = "SELECT_BOTH_DOWN" ->
                     IF a_block THEN (IF d_block THEN 4 ELSE 2)
                     ELSE (IF d_block THEN 6 ELSE 5)
              [] face = "SELECT_ATTACKER_DOWN" -> 6

FacesOffered == {game.available_actions[i].action_type : i \in 1..Len(game.available_actions)}

\* C27: block() returns an offered die face that no other offered face
\* beats in favourability for the bot's own side, the attacker's view when
\* the bot's unit attacks and the defender's when it defends; so a
\* defending bot offered both never takes DEFENDER_DOWN over ATTACKER_DOWN.
C27_BestFaceForOwnSide ==
    pc = "blocked" =>
        /\ result.kind = "action"
        /\ result.action.action_type \in FacesOffered
        /\ \A face \in FacesOffered :
              OwnSideFavourability(result.action.action_type) >= OwnSideFavourability(face)

-----------------------------------------------------------------------------
(* The re-roll model: reroll() is applied to one failed roll of p2, the    *)
(* dice of a block on o1 or the roll of a pass, dodge or pick-up.  Here    *)
(* result is what reroll() returned.                                       *)

MaxRerolls == 3

RerollGame(context, team_turn, rerolls, can_use_pro, ball_square, other_used, value) ==
    [BaseGame EXCEPT
        !.proc = "Reroll", !.active_player = "p2", !.attacker = "p2", !.defender = "o1",
        !.available_actions = <<Choice("USE_REROLL"), Choice("DONT_USE_REROLL")>>,
        !.context = context, !.turn = team_turn, !.rerolls = rerolls,
        !.can_use_pro = can_use_pro, !.ball_square = ball_square,
        !.used["p1"] = other_used, !.fall_down_value["p2"] = value]

RollGames ==
    {[RerollGame(context, team_turn, rerolls, can_use_pro, ball_square, other_used, value)
         EXCEPT !.num_dice = num_dice, !.target_roll = target_roll] :
        context \in {"PassAttempt", "Dodge", "Pickup"}, team_turn \in 1..8,
        rerolls \in 0..MaxRerolls, can_use_pro \in BOOLEAN, ball_square \in {NoSquare, 2},
        other_used \in BOOLEAN, value \in {0, 110}, num_dice \in {1, 2},
        target_roll \in {2, 4, 6}}

DiceRolled ==
    {<<Choice("SELECT_ATTACKER_DOWN")>>,
     <<Choice("SELECT_PUSH")>>,
     <<Choice("SELECT_BOTH_DOWN"), Choice("SELECT_ATTACKER_DOWN")>>,
     <<Choice("SELECT_ATTACKER_DOWN"), Choice("SELECT_DEFENDER_DOWN")>>,
     <<Choice("SELECT_PUSH"), Choice("SELECT_BOTH_DOWN"), Choice("SELECT_PUSH")>>,
     <<Choice("SELECT_ATTACKER_DOWN"), Choice("SELECT_BOTH_DOWN"),
       Choice("SELECT_DEFENDER_STUMBLES")>>}

BlockRollGames ==
    {[RerollGame("Block", team_turn, rerolls, can_use_pro, ball_square, other_used, value)
         EXCEPT !.num_dice = Len(block_results), !.block_results = block_results,
                !.favor = favor] :
        team_turn \in 1..8, rerolls \in 0..MaxRerolls, can_use_pro \in BOOLEAN,
        ball_square \in {NoSquare, 2, 3}, other_used \in BOOLEAN, value \in {0, 110},
        block_results \in DiceRolled, favor \in {"own", "opp"}}

InitReroll ==
    /\ pc = "idle"
    /\ debug = FALSE
    /\ current_move = <<>>
    /\ heat_map = <<>>
    /\ game \in RollGames \cup BlockRollGames
    /\ handled = NotRun
    /\ result = NotRun
    /\ all_actions = <<>>
    /\ generated = <<>>
    /\ handed = <<>>
    /\ heat_prev = <<>>
    /\ heat_op = NoHeat
    /\ heat_op_prev = NoHeat
    /\ pen = NoPen

ApplyReroll ==
    /\ pc = "idle"
    /\ pc' = "answered"
    /\ result' = reroll(game, "p2")
    /\ UNCHANGED <<debug, current_move, heat_map, game, handled, all_actions, generated,
                   handed, heat_prev, heat_op, heat_op_prev, pen>>

SpecReroll == InitReroll /\ [][ApplyReroll]_vars

\* The dice of the block are judged acceptable.
DiceAcceptable == game.context = "Block" /\ ~check_reroll_block(game)

\* What is lost with the roll, in points: 30, 37 for each other unit still
\* to act, the worth of the unit if the roll knocks it down, and what the
\* ball is worth where it would drop if the unit holds it (the ball of a
\* pass in any case).
Stake ==
    30 + 37 * (Cardinality({q \in RangeOf(OwnPlayers) : ~game.used[q]}) - 1)
    + (IF game.context \in {"Block", "Dodge", "GFI"} THEN game.fall_down_value["p2"] ELSE 0)
    - (IF game.ball_square /= NoSquare
          /\ (game.context = "PassAttempt" \/ game.ball_square = PositionOf("p2"))
       THEN drop_ball_penalty(game, game.ball_square, "p2") ELSE 0)

\* The value at stake, Stake times the chance of the roll, is at least
\* 170 - 170 * rerolls / (9 - turn).
AtLeastThreshold ==
    LET p == SuccessProb(game)
    IN Stake * p[1] * (9 - game.turn) >= p[2] * (170 * (9 - game.turn) - 170 * game.rerolls)

Answer == result.action.action_type

\* C28: reroll() answers DONT_USE_REROLL for a block whose dice are judged
\* acceptable, whatever else holds; otherwise, when Pro cannot be used, it
\* answers USE_REROLL if the team has at least as many re-rolls as the
\* number of its turn, and else USE_REROLL exactly when the value at stake
\* is at least 170 - 170 * rerolls / (9 - turn) and DONT_USE_REROLL if not.
\* It answers on every turn 1..8, and one more re-roll never turns a
\* USE_REROLL into a DONT_USE_REROLL.
C28_RerollRule ==
    pc = "answered" =>
        /\ result.kind = "action"
        /\ DiceAcceptable => Answer = "DONT_USE_REROLL"
        /\ ~DiceAcceptable /\ ~game.can_use_pro =>
              /\ Answer \in {"USE_REROLL", "DONT_USE_REROLL"}
              /\ game.rerolls >= game.turn => Answer = "USE_REROLL"
              /\ game.rerolls < game.turn => (Answer = "USE_REROLL" <=> AtLeastThreshold)
              /\ Answer = "USE_REROLL" =>
                    reroll([game EXCEPT !.rerolls = @ + 1], "p2") = result

\* C28 happens: with Pro unusable and fewer re-rolls than turns, but at
\* least one, the dice of a block are not acceptable and are re-rolled
\* because the value at stake reaches the threshold.
C28_Witness ==
    /\ pc = "answered"
    /\ ~DiceAcceptable
    /\ ~game.can_use_pro
    /\ game.rerolls < game.turn
    /\ game.rerolls > 0
    /\ Answer = "USE_REROLL"
    /\ game.context = "Block"

-----------------------------------------------------------------------------
(* The cycle model: the framework asks for a decision at a Turn, and after *)
(* a START step for a unit it asks for the steps of that unit's action one *)
(* at a time, until the unit ends its action or the action is cut short    *)
(* (turnover, touchdown, knock-down); then it is at a Turn again.  Here    *)
(* result is what the handler returned, all_actions the steps that were    *)
(* left of current_move when the handler was called, generated the steps   *)
(* of the sequence last selected, handed those of them handed out so far,  *)
(* and handled the handler, the unit the sequence it served from was       *)
(* selected for, the unit of the sequence it found, and the active unit.   *)

\* The decisions of the action of a unit.
ActionGamesOf(player) == {g \in PlayerActionGames : g.active_player = player}

OwnerOf(cm) == IF cm = <<>> THEN NoPlayer ELSE cm[1].player

InitCycle ==
    /\ pc = "turn"
    /\ debug = FALSE
    /\ current_move = <<>>
    /\ heat_map = <<>>
    /\ game \in TurnGames
    /\ handled = [by |-> "none", owner |-> NoPlayer, found |-> NoPlayer, active |-> NoPlayer]
    /\ result = NotRun
    /\ all_actions = <<>>
    /\ generated = <<>>
    /\ handed = <<>>
    /\ heat_prev = <<>>
    /\ heat_op = NoHeat
    /\ heat_op_prev = NoHeat
    /\ pen = NoPen

\* The framework after the handler's answer: the action of the unit of a
\* START step if there is one to go on with, else the next Turn.
NextDecision(outcome, player) ==
    IF outcome.kind = "action" /\ outcome.action.action_type /= "END_PLAYER_TURN"
       /\ player /= NoPlayer /\ ActionGamesOf(player) /= {}
    THEN pc' = "action" /\ game' \in ActionGamesOf(player)
    ELSE pc' = "turn" /\ game' \in TurnGames

\* turn(), or blitz(), at a Turn that is not a quick snap.
CycleTurn ==
    /\ pc = "turn"
    /\ ~game.quick_snap
    /\ LET selected == set_next_move(game)
           r == turn(game)
       IN /\ result' = r.outcome
          /\ current_move' = r.bot.current_move
          /\ heat_map' = r.bot.heat_map
          /\ all_actions' = StepsOf(current_move)
          /\ generated' = StepsOf(selected.current_move)
          /\ handed' = StepOf(r.outcome)
          /\ handled' = [by |-> "turn", owner |-> OwnerOf(selected.current_move),
                         found |-> OwnerOf(current_move), active |-> NoPlayer]
          /\ NextDecision(r.outcome,
                          IF r.outcome.kind = "action" THEN r.outcome.action.player
                          ELSE NoPlayer)
    /\ UNCHANGED <<debug, heat_prev, heat_op, heat_op_prev, pen>>

\* quick_snap() at a quick-snap Turn.
CycleQuickSnap ==
    /\ pc = "turn"
    /\ game.quick_snap
    /\ LET r == quick_snap(heat_map, <<>>)
       IN /\ result' = r.outcome
          /\ current_move' = r.bot.current_move
          /\ heat_map' = r.bot.heat_map
          /\ all_actions' = StepsOf(current_move)
          /\ generated' = <<>>
          /\ handed' = <<>>
          /\ handled' = [by |-> "quick_snap", owner |-> NoPlayer,
                         found |-> OwnerOf(current_move), active |-> NoPlayer]
          /\ NextDecision(r.outcome, NoPlayer)
    /\ UNCHANGED <<debug, heat_prev, heat_op, heat_op_prev, pen>>

\* player_action() at a decision of the active unit's action.
CyclePlayerAction ==
    /\ pc = "action"
    /\ LET reselect == current_move = <<>> \/ is_empty(current_move[1])
           selected == set_continuation_move(game, heat_map, get_num_unmoved(game))
           r == player_action(game, current_move, heat_map, <<>>)
       IN /\ result' = r.outcome
          /\ current_move' = r.bot.current_move
          /\ heat_map' = r.bot.heat_map
          /\ all_actions' = StepsOf(current_move)
          /\ generated' = IF reselect THEN StepsOf(selected.current_move) ELSE generated
          /\ handed' = IF reselect THEN StepOf(r.outcome) ELSE handed \o StepOf(r.outcome)
          /\ handled' = [by |-> "player_action",
                         owner |-> IF reselect THEN OwnerOf(selected.current_move)
                                   ELSE OwnerOf(current_move),
                         found |-> OwnerOf(current_move), active |-> game.active_player]
          /\ NextDecision(r.outcome, game.active_player)
    /\ UNCHANGED <<debug, heat_prev, heat_op, heat_op_prev, pen>>

\* The action of the unit is cut short: the framework is at a Turn again,
\* and the bot has not been called.
CutShort ==
    /\ pc = "action"
    /\ pc' = "turn"
    /\ game' \in TurnGames
    /\ UNCHANGED <<debug, current_move, heat_map, handled, result, all_actions, generated,
                   handed, heat_prev, heat_op, heat_op_prev, pen>>

NextCycle == CycleTurn \/ CycleQuickSnap \/ CyclePlayerAction \/ CutShort

SpecCycle == InitCycle /\ [][NextCycle]_vars

\* C29: turn(), blitz() and quick_snap() discard what is left of
\* current_move before they return anything: what turn() returns is the
\* first step of the sequence it has just selected, and what it keeps are
\* the other steps of that sequence; quick_snap() keeps nothing.  So the
\* steps handed out since a selection, followed by the steps kept, are the
\* sequence selected, and a step player_action hands out is of a sequence
\* selected for the active unit.
C29_LeftoverNeverHandedOut ==
    /\ handled.by = "turn" /\ result.kind = "action" =>
          /\ generated /= <<>>
          /\ result.action = Head(generated)
          /\ StepsOf(current_move) = Tail(generated)
    /\ handled.by = "quick_snap" => current_move = <<>>
    /\ handed \o StepsOf(current_move) = generated
    /\ handled.by = "player_action" /\ result.kind = "action" =>
          handled.owner = handled.active

\* C29 happens: turn() was called with steps left of a sequence selected
\* for p1, whose action was cut short, and has returned the first step of
\* a sequence for p2.
C29_Witness ==
    /\ handled.by = "turn"
    /\ all_actions /= <<>>
    /\ handled.found = "p1"
    /\ handled.owner = "p2"
    /\ result.kind = "action"
    /\ result.action.player = "p2"

-----------------------------------------------------------------------------
(* The setup model: the framework calls setup() at a Setup decision until  *)
(* END_SETUP is returned, putting each player placed on the pitch.  Here   *)
(* generated is the sequence setup built, handed the steps returned so far *)
(* and result what the last call returned.                                 *)

MaxPlaceable == 12

Keys(n) ==
    {[q \in 1..n |-> q], [q \in 1..n |-> 0], [q \in 1..n |-> (q * 5) % 3]}

\* The first Setup decision of a drive: no own unit is on the pitch.
SetupGame(n, formation, own_side_right, value, bash, blitz, pass_, receive) ==
    [proc |-> "Setup", reorganize |-> FALSE, on_pitch |-> FALSE,
     placeable |-> [q \in 1..n |-> q], receiving |-> formation = "receiving",
     behind |-> formation = "behind", own_side_right |-> own_side_right,
     width |-> 28, value |-> value, bash |-> bash, blitz |-> blitz,
     pass_ |-> pass_, receive |-> receive]

Formations == {"receiving", "kicking", "behind"}

PlacingGames ==
    UNION {{SetupGame(n, formation, own_side_right, value, bash, blitz, pass_, receive) :
              formation \in Formations, own_side_right \in BOOLEAN, value \in Keys(n),
              bash \in Keys(n), blitz \in Keys(n), pass_ \in Keys(n),
              receive \in Keys(n)} :
           n \in {0, 1, 3, 11, MaxPlaceable}}

\* Setup decisions after a perfect defence.
ReorganizeGames ==
    {[SetupGame(3, formation, TRUE, key, key, key, key, key)
         EXCEPT !.reorganize = TRUE, !.on_pitch = on_pitch] :
        formation \in Formations, on_pitch \in BOOLEAN, key \in Keys(3)}

SetupGames == PlacingGames \cup ReorganizeGames

InitSetup ==
    /\ pc = "idle"
    /\ debug = FALSE
    /\ current_move = <<>>
    /\ heat_map = <<>>
    /\ game \in SetupGames
    /\ handled = NotRun
    /\ result = NotRun
    /\ all_actions = <<>>
    /\ generated = <<>>
    /\ handed = <<>>
    /\ heat_prev = <<>>
    /\ heat_op = NoHeat
    /\ heat_op_prev = NoHeat
    /\ pen = NoPen

\* One call of setup(); the framework puts the player of a PLACE_PLAYER
\* step on the pitch and calls again until it is given END_SETUP.
ApplySetup ==
    /\ pc \in {"idle", "placing"}
    /\ LET r == setup(game, current_move)
           placed == r.outcome.kind = "action"
                     /\ r.outcome.action.action_type = "PLACE_PLAYER"
       IN /\ result' = r.outcome
          /\ current_move' = r.current_move
          /\ generated' = IF pc = "idle" THEN StepsOf(r.current_move) ELSE generated
          /\ handed' = handed \o StepOf(r.outcome)
          /\ pc' = IF placed THEN "placing" ELSE "done"
          /\ game' = IF placed THEN [game EXCEPT !.on_pitch = TRUE] ELSE game
    /\ UNCHANGED <<debug, heat_map, handled, all_actions, heat_prev, heat_op, heat_op_prev,
                   pen>>

SpecSetup == InitSetup /\ [][ApplySetup]_vars

NumPlaced == Min(11, Len(game.placeable))

\* The steps of the sequence are NumPlaced PLACE_PLAYER steps, each of
\* another placeable player on another square, and then END_SETUP.
IsPlacement(steps) ==
    /\ Len(steps) = NumPlaced + 1
    /\ steps[Len(steps)] = Action("END_SETUP", NoPlayer, NoSquare)
    /\ \A i \in 1..NumPlaced :
          /\ steps[i].action_type = "PLACE_PLAYER"
          /\ steps[i].player \in RangeOf(game.placeable)
          /\ \A j \in 1..NumPlaced :
                i /= j => /\ steps[i].player /= steps[j].player
                          /\ steps[i].position /= steps[j].position

Building == pc /= "idle" /\ ~(pc = "done" /\ game.reorganize)

\* C30: when setup() builds a placement sequence, no selection loop runs
\* out of candidates, the sequence is min(11, number of placeable players)
\* PLACE_PLAYER steps with different players and different squares and
\* then one END_SETUP, and the calls of setup() return its steps one at a
\* time, in order.
C30_SetupPlacesElevenAtMost ==
    Building =>
        /\ result.kind = "action"
        /\ IsPlacement(handed \o StepsOf(current_move))
        /\ result.action = handed[Len(handed)]
        /\ pc = "done" => current_move[1].action_steps = <<>>

\* C30 happens: more than eleven players could be placed, eleven have
\* been, the list of passers began with players placed before, and
\* END_SETUP has been returned last.
C30_Witness ==
    /\ pc = "done"
    /\ ~game.reorganize
    /\ Len(game.placeable) > 11
    /\ Len(handed) = 12
    /\ game.receiving
    /\ game.pass_ = game.bash

-----------------------------------------------------------------------------
(* The scoring model: turn() is applied once to a Turn at which p2 carries *)
(* the ball, next to o1, and may move to the two free squares.  The paths  *)
(* carry the score that score_move gives their last square.                *)

\* A Turn with p2 on the ball.  d_own, d4 and d5 are the distances of p2's
\* square and of the free squares to the scoring end zone; p4 and p5 are the
\* probabilities of the paths to the free squares, 0 for no path.
CarrierGame(team_turn, d_own, d4, d5, p4, p5, bc4, sideline5, can_2d, used1, dns, with_block) ==
    LET steps == SelectSeq(<<4, 5>>, LAMBDA sq : (IF sq = 4 THEN p4 ELSE p5) > 0)
        g0 == [BaseGame EXCEPT
                  !.proc = "Turn",
                  !.available_actions =
                      TurnChoices(IF used1 THEN <<"p2">> ELSE <<"p1", "p2">>,
                                  IF with_block THEN <<"p2">> ELSE <<>>, <<>>, "last"),
                  !.used = [q \in RangeOf(OwnPlayers) |-> q = "p1" /\ used1],
                  !.turn = team_turn,
                  !.ball_square = PositionOf("p2"),
                  !.endzone_distance =
                      [sq \in Squares |->
                          IF sq = PositionOf("p2") THEN d_own
                          ELSE IF sq = 4 THEN d4 ELSE IF sq = 5 THEN d5 ELSE 3],
                  !.square_sideline = [sq \in Squares |-> IF sq = 5 THEN sideline5 ELSE 3],
                  !.ball_control =
                      [sq \in Squares |-> IF sq = 4 THEN bc4 ELSE 6000],
                  !.can_2d = can_2d,
                  !.moves_left = [q \in AllPlayers |-> IF q = "p2" THEN 1 ELSE 0],
                  !.do_nothing_score = [q \in RangeOf(OwnPlayers) |->
                                           IF q = "p2" THEN dns ELSE 0],
                  !.block_score = <<15000, 16000>>,
                  !.paths = [q \in AllPlayers |->
                      IF q = "p2"
                      THEN [i \in 1..Len(steps) |->
                               Path(<<steps[i]>>, IF steps[i] = 4 THEN p4 ELSE p5, 0, TRUE)]
                      ELSE IF q = "o1" THEN <<Path(<<4>>, 50, 0, TRUE)>>
                      ELSE <<>>]]
        hm == BuildHeatMap(g0)
        current_ball_control == g0.ball_control[g0.ball_square]
        unscored == g0.paths["p2"]
    IN [g0 EXCEPT !.paths["p2"] =
           [i \in 1..Len(unscored) |->
               Path(unscored[i].steps, unscored[i].prob,
                    score_move(g0, hm, "p2", LastStep(unscored[i]), unscored[i].prob,
                               current_ball_control),
                    TRUE)]]

ScoreGames ==
    {CarrierGame(team_turn, d_own, d_own - e4, d_own - e5, p4, p5, bc4, sideline5, can_2d,
                 used1, dns, with_block) :
        team_turn \in {1, 8}, d_own \in {1, 2}, e4 \in {0, 1}, e5 \in {0, 1},
        p4 \in {0, 50, 100}, p5 \in {0, 50, 100}, bc4 \in {1000, 11200},
        sideline5 \in {0, 3}, can_2d \in {{}, {4}}, used1 \in BOOLEAN,
        dns \in {0, 2000}, with_block \in BOOLEAN}

InitScore ==
    /\ pc = "called"
    /\ debug = FALSE
    /\ current_move = <<>>
    /\ heat_map = <<>>
    /\ game \in ScoreGames
    /\ handled = NotRun
    /\ result = NotRun
    /\ all_actions = <<>>
    /\ generated = <<>>
    /\ handed = <<>>
    /\ heat_prev = <<>>
    /\ heat_op = NoHeat
    /\ heat_op_prev = NoHeat
    /\ pen = NoPen

SpecScore == InitScore /\ [][ActTurn]_vars

\* The candidate moves to the last square of a path that is certain and
\* ends in the scoring end zone.
CertainScoringMove(sequence) ==
    /\ Len(sequence.action_steps) >= 2
    /\ sequence.action_steps[2].action_type = "MOVE"
    /\ \E i \in 1..Len(game.paths[sequence.player]) :
           LET path == game.paths[sequence.player][i]
           IN /\ path.prob = 100
              /\ in_scoring_endzone(game, LastStep(path))
              /\ sequence.action_steps[2].position = LastStep(path)

\* The candidates generated for the ball carrier on the team's turn 8.
CarrierCandidatesOnTurn8 ==
    IF pc = "returned" /\ game.turn = 8 /\ BallCarrier(game) \in RangeOf(OwnPlayers)
    THEN RangeOf(ActionsOf(all_actions, BallCarrier(game)))
    ELSE {}

\* C13 (as claimed): on the team's turn 8, the ball carrier's move candidate
\* whose path has probability 1.0 and ends in the scoring end zone has an
\* immediate score strictly greater than that of every other candidate
\* generated for that unit in the same decision cycle.
C13_CertainScoringMoveAboveEveryOther ==
    \A c \in CarrierCandidatesOnTurn8 : \A k \in CarrierCandidatesOnTurn8 :
        CertainScoringMove(c) /\ k /= c => c.immediate_score > k.immediate_score

\* C13 (amended): ... strictly greater than that of every other candidate
\* generated for that unit that is not itself a move along a path of
\* probability 1.0 into the scoring end zone.
C13_CertainScoringMoveAboveTheRest ==
    \A c \in CarrierCandidatesOnTurn8 : \A k \in CarrierCandidatesOnTurn8 :
        CertainScoringMove(c) /\ ~CertainScoringMove(k) => c.immediate_score > k.immediate_score

\* A turn 8 at which the carrier has a certain scoring move, an uncertain
\* one and a block to choose from.
C13_Witness ==
    /\ \E c \in CarrierCandidatesOnTurn8 : CertainScoringMove(c)
    /\ \E k \in CarrierCandidatesOnTurn8 :
           /\ ~CertainScoringMove(k)
           /\ k.action_steps[1].action_type = "START_MOVE"
           /\ in_scoring_endzone(game, k.action_steps[2].position)
    /\ \E k \in CarrierCandidatesOnTurn8 : k.action_steps[1].action_type = "START_BLOCK"

-----------------------------------------------------------------------------
(* The blitz model: potential_blitz_actions is applied to one blitz path   *)
(* against o1, once with one block die and once with three, everything    *)
(* else about the game the same.                                           *)

\* A Turn at which the attacker may blitz o1: p1 from the free square next
\* to o1, p2 from where it stands.
BlitzGame(attacker, prob, ball_square, attacker_skills, defender_skills, reroll_used, surf, other_used, defender_value, defender_moves) ==
    [BaseGame EXCEPT
        !.proc = "Turn",
        !.available_actions = <<ActionChoice("START_BLITZ", <<attacker>>, <<>>)>>,
        !.used = [q \in RangeOf(OwnPlayers) |-> q /= attacker /\ other_used],
        !.ball_square = ball_square,
        !.skills = [q \in AllPlayers |->
                       IF q = attacker THEN attacker_skills
                       ELSE IF q = "o1" THEN defender_skills ELSE {}],
        !.reroll_used = reroll_used,
        !.would_surf = surf, !.direct_surf = surf,
        !.fall_down_value = [q \in AllPlayers |-> IF q = "o1" THEN defender_value ELSE 0],
        !.moves_left = [q \in AllPlayers |-> IF q = "o1" THEN defender_moves ELSE 0],
        !.paths = [q \in AllPlayers |->
                      IF q /= attacker THEN <<>>
                      ELSE IF q = "p1" THEN <<Path(<<4, PositionOf("o1")>>, prob, 0, TRUE)>>
                      ELSE <<Path(<<PositionOf("o1")>>, prob, 0, TRUE)>>]]

BlitzGames ==
    {BlitzGame(attacker, prob, ball_square, attacker_skills, defender_skills, reroll_used,
               surf, other_used, defender_value, defender_moves) :
        attacker \in RangeOf(OwnPlayers), prob \in {50, 100},
        ball_square \in {NoSquare, 1, 2, 3, 4},
        attacker_skills \in {{}, {"BLOCK"}, {"LONER"}},
        defender_skills \in {{}, {"DODGE", "BLOCK"}},
        reroll_used \in BOOLEAN, surf \in BOOLEAN, other_used \in BOOLEAN,
        defender_value \in {0, 40}, defender_moves \in {0, 3}}

InitBlitz ==
    /\ pc = "idle"
    /\ debug = FALSE
    /\ current_move = <<>>
    /\ heat_map = <<>>
    /\ game \in BlitzGames
    /\ handled = NotRun
    /\ result = NotRun
    /\ all_actions = <<>>
    /\ generated = <<>>
    /\ handed = <<>>
    /\ heat_prev = <<>>
    /\ heat_op = NoHeat
    /\ heat_op_prev = NoHeat
    /\ pen = NoPen

\* The blitz candidate of the game's attacker when num_block_dice_at
\* answers block_dice.
BlitzCandidate(block_dice) ==
    LET g == [game EXCEPT !.block_dice = block_dice]
        attacker == g.available_actions[1].players[1]
    IN potential_blitz_actions(g, attacker, g.paths[attacker][1], get_num_unmoved(g))

ApplyBlitz ==
    /\ pc = "idle"
    /\ all_actions = <<>>
    /\ all_actions' = BlitzCandidate(1) \o BlitzCandidate(3)
    /\ UNCHANGED <<pc, debug, current_move, heat_map, game, handled, result, generated,
                   handed, heat_prev, heat_op, heat_op_prev, pen>>

SpecBlitz == InitBlitz /\ [][ApplyBlitz]_vars

\* C14: of two blitz candidates that are identical in every input except
\* the number of block dice, the one with three block dice has a strictly
\* higher immediate score than the one with one block die.
C14_ThreeDiceAboveOneDie ==
    all_actions /= <<>> =>
        all_actions[2].immediate_score > all_actions[1].immediate_score

\* Both candidates scored for an attacker without Block blitzing the ball
\* carrier along a risky path, the team reroll gone.
C14_Witness ==
    /\ all_actions /= <<>>
    /\ game.ball_square = PositionOf("o1")
    /\ game.skills[all_actions[1].player] = {}
    /\ game.reroll_used
    /\ game.paths[all_actions[1].player][1].prob < 100

-----------------------------------------------------------------------------
(* The heat-map model: a FfHeatMap is constructed and unit paths and moved *)
(* units are folded into it, one call after another.                       *)

\* The most folds into one heat map.
MaxFolds == 3

HeatPath(steps, prob) == Path(steps, prob, 0, FALSE)

\* The path lists pathfinding answers in the heat-map model.
HeatPathLists ==
    {<<>>,
     <<HeatPath(<<4>>, 100)>>,
     <<HeatPath(<<4>>, 50), HeatPath(<<4, 5>>, 100)>>,
     <<HeatPath(<<5>>, 0)>>}

PathsBy(players, paths) ==
    [q \in AllPlayers |-> IF q \in RangeOf(players) THEN paths[q] ELSE <<>>]

InitHeat ==
    /\ pc = "idle"
    /\ debug = FALSE
    /\ current_move = <<>>
    /\ heat_map = <<NewHeatMap>>
    /\ game = BaseGame
    /\ handled = NotRun
    /\ result = NotRun
    /\ all_actions = <<>>
    /\ generated = <<>>
    /\ handed = <<>>
    /\ heat_prev = <<>>
    /\ heat_op = NoHeat
    /\ heat_op_prev = NoHeat
    /\ pen = NoPen

\* One call of a fold: the grids before it and the call are recorded.
Fold(fold, players, paths, hm) ==
    /\ heat_op.n < MaxFolds
    /\ heat_map' = <<hm>>
    /\ heat_prev' = heat_map
    /\ heat_op' = [fold |-> fold, players |-> players, paths |-> paths, n |-> heat_op.n + 1]
    /\ heat_op_prev' = heat_op
    /\ UNCHANGED <<pc, debug, current_move, game, handled, result, all_actions,
                   generated, handed, pen>>

\* heat_map.add_unit_paths(player, paths)
HeatAddUnitPaths(player, paths) ==
    Fold("add_unit_paths", <<player>>, PathsBy(<<player>>, [q \in AllPlayers |-> paths]),
         add_unit_paths(heat_map[1], player, paths))

\* heat_map.add_unit_by_paths(game, paths)
HeatAddUnitByPaths(players, paths) ==
    Fold("add_unit_by_paths", players, PathsBy(players, paths),
         add_unit_by_paths(heat_map[1], players, paths))

\* heat_map.add_players_moved(game, players)
HeatAddPlayersMoved(players) ==
    Fold("add_players_moved", players, PathsBy(<<>>, [q \in AllPlayers |-> <<>>]),
         add_players_moved(heat_map[1], players))

NextHeat ==
    \/ \E player \in {"p1", "o1"}, paths \in HeatPathLists : HeatAddUnitPaths(player, paths)
    \/ \E players \in {<<"p1", "p2">>, <<"p2", "o1">>}, paths \in HeatPathLists :
           HeatAddUnitByPaths(players,
               [q \in AllPlayers |-> IF q = players[1] THEN paths
                                     ELSE <<HeatPath(<<4>>, 100)>>])
    \/ \E players \in {<<>>, <<"p1">>, <<"p2", "p1">>} : HeatAddPlayersMoved(players)

SpecHeat == InitHeat /\ [][NextHeat]_vars

Grids == {"units_friendly", "units_opponent"}

\* C8: every cell of both grids is non-negative, and no call of
\* add_unit_paths, add_unit_by_paths or add_players_moved lowers a cell.
C8_CellsNonNegativeNeverLowered ==
    /\ \A grid \in Grids, sq \in Squares : heat_map[1][grid][sq] >= 0
    /\ heat_prev /= <<>> =>
           \A grid \in Grids, sq \in Squares : heat_map[1][grid][sq] >= heat_prev[1][grid][sq]

\* C8 happens: a fold has raised a cell that an earlier fold had already
\* raised above 0, and another fold has left a non-zero cell as it was.
C8_Witness ==
    /\ heat_prev /= <<>>
    /\ \E grid \in Grids, sq \in Squares :
           heat_map[1][grid][sq] > heat_prev[1][grid][sq] /\ heat_prev[1][grid][sq] > 0
    /\ \E grid \in Grids, sq \in Squares :
           heat_map[1][grid][sq] = heat_prev[1][grid][sq] /\ heat_prev[1][grid][sq] > 0

\* What the reinforcement of the units already moved adds to the friendly
\* cell of a square: 1.0 for a unit standing on it, and 0.5 for each of the
\* units next to it when the square is occupied.
Reinforcement(players, sq) ==
    10000 * Cardinality({q \in RangeOf(players) : PositionOf(q) = sq})
    + (IF PlayerAt(sq) = NoPlayer THEN 0
       ELSE 5000 * Cardinality({q \in RangeOf(players) : Adjacent(PositionOf(q), sq)}))

\* C26: add_players_moved adds, for each of the units given, 1.0 to the
\* friendly cell of the unit and 0.5 to the friendly cell of each occupied
\* square next to it; no other cell changes and the opponent grid is left
\* as it was.
C26_ReinforcesUnitAndNeighbours ==
    heat_op.fold = "add_players_moved" =>
        /\ \A sq \in Squares :
              heat_map[1].units_friendly[sq]
              = heat_prev[1].units_friendly[sq] + Reinforcement(heat_op.players, sq)
        /\ heat_map[1].units_opponent = heat_prev[1].units_opponent

\* The same paths of the same units were folded in by the last two calls.
FoldedTwice ==
    /\ heat_op.fold \in {"add_unit_paths", "add_unit_by_paths"}
    /\ heat_op.fold = heat_op_prev.fold
    /\ heat_op.players = heat_op_prev.players
    /\ heat_op.paths = heat_op_prev.paths

\* What the paths of the last fold weigh on square sq in a grid: prob*prob
\* of every path of a unit of that grid's team that ends on sq.
RECURSIVE WeightFrom(_, _, _)
WeightFrom(paths, sq, i) ==
    IF i > Len(paths) THEN 0
    ELSE (IF paths[i].steps[Len(paths[i].steps)] = sq THEN paths[i].prob * paths[i].prob ELSE 0)
         + WeightFrom(paths, sq, i + 1)

RECURSIVE FoldWeightFrom(_, _, _)
FoldWeightFrom(grid, sq, i) ==
    IF i > Len(heat_op.players) THEN 0
    ELSE (IF (grid = "units_friendly") = (heat_op.players[i] \in RangeOf(OwnPlayers))
          THEN WeightFrom(heat_op.paths[heat_op.players[i]], sq, 1) ELSE 0)
         + FoldWeightFrom(grid, sq, i + 1)

\* C9 as stated: folding the same paths in a second time leaves both grids
\* as they were after the first time.
C9_SecondFoldChangesNothing == FoldedTwice => heat_map = heat_prev

\* C9: accumulation is additive: folding the same paths in a second time
\* adds prob*prob of each path to the cell of its last square once more, so
\* the grids stay as they were only where every such path has prob 0.
C9_SecondFoldAddsAgain ==
    FoldedTwice =>
        \A grid \in Grids, sq \in Squares :
            heat_map[1][grid][sq] = heat_prev[1][grid][sq] + FoldWeightFrom(grid, sq, 1)

\* C9 happens: the same paths were folded in twice, and the second fold
\* changed a grid.
C9_Witness == FoldedTwice /\ heat_map /= heat_prev

-----------------------------------------------------------------------------
(* The penalty model: turnover_chance_penalty is applied to two failure    *)
(* probabilities p1 < p2 and to 0, the other inputs held fixed.            *)

\* The most standing units of one team next to the square the ball drops on.
MaxAdjacent == 2

Probabilities == {0, 25, 50, 100}

PenInputs ==
    [done : {FALSE},
     p1 : Probabilities, p2 : Probabilities,
     players_to_move : {<<>>, <<"p1">>, <<"p2">>, <<"p1", "p2">>},
     fall_down : BOOLEAN,
     fall_down_value : {0, 40},
     drop : {<<>>} \cup {<<[my_players |-> a, their_players |-> b]>> :
                            a \in 0..MaxAdjacent, b \in 0..MaxAdjacent},
     at_p1 : {0}, at_p2 : {0}, at_0 : {0}]

InitPenalty ==
    /\ pc = "idle"
    /\ debug = FALSE
    /\ current_move = <<>>
    /\ heat_map = <<>>
    /\ game = BaseGame
    /\ handled = NotRun
    /\ result = NotRun
    /\ all_actions = <<>>
    /\ generated = <<>>
    /\ handed = <<>>
    /\ heat_prev = <<>>
    /\ heat_op = NoHeat
    /\ heat_op_prev = NoHeat
    /\ pen \in {i \in PenInputs : i.p1 < i.p2}

\* turnover_chance_penalty at the probability, with num_unmoved as
\* get_num_unmoved answers it for the units still to move.
PenaltyAt(probability) ==
    PenaltyOf(probability, NumUnmovedOf(pen.players_to_move), pen.fall_down,
              pen.fall_down_value,
              IF pen.drop = <<>> THEN <<>>
              ELSE <<DropBallPenaltyOf(pen.drop[1].my_players, pen.drop[1].their_players)>>)

ApplyPenalty ==
    /\ ~pen.done
    /\ pen' = [pen EXCEPT !.done = TRUE, !.at_p1 = PenaltyAt(pen.p1),
                          !.at_p2 = PenaltyAt(pen.p2), !.at_0 = PenaltyAt(0)]
    /\ UNCHANGED <<pc, debug, current_move, heat_map, game, handled, result, all_actions,
                   generated, handed, heat_prev, heat_op, heat_op_prev>>

SpecPenalty == InitPenalty /\ [][ApplyPenalty]_vars

\* C10: the penalty does not rise with the failure probability, and it is 0
\* at probability 0, for num_unmoved as get_num_unmoved answers it.
C10_PenaltyMonotone ==
    pen.done => pen.at_p2 <= pen.at_p1 /\ pen.at_0 = 0

-----------------------------------------------------------------------------
(* The dodge model: the game engine that tests/game/test_dodge.py drives.  *)
(* One unit of the team to move stands in the middle of a three-by-three   *)
(* patch of the pitch among up to two standing opponents, and moves a      *)
(* square at a time; here game is the state of that engine.                *)

MaxMoves == 2

DodgeSquares == (1..3) \X (1..3)

\* Square.is_adjacent: a different square at most one step away on each axis
IsAdjacentSquare(a, b) ==
    a /= b /\ a[1] - b[1] \in -1..1 /\ a[2] - b[2] \in -1..1

\* len(game.get_adjacent_players(square, opp_team)): the opposing tackle
\* zones on a square (every opponent of the model stands).
NumTackleZonesAt(g, square) ==
    Cardinality({sq \in g.opponents : IsAdjacentSquare(sq, square)})

\* A get_dodge_modifiers that counts the tackle zones on the square left.
get_dodge_modifiers_from(g, target) ==
    1 - NumTackleZonesAt(g, g.position)
    - (IF \E sq \in g.tails : IsAdjacentSquare(sq, g.position) THEN 1 ELSE 0)

\* game.get_dodge_modifiers(player, target), the player being the unit that
\* moves
get_dodge_modifiers(g, target) ==
    1 - NumTackleZonesAt(g, target)
    - (IF \E sq \in g.tails : IsAdjacentSquare(sq, g.position) THEN 1 ELSE 0)

\* An agility roll: a 1 always fails, a 6 always succeeds, otherwise the
\* roll and its modifiers have to reach 7 less the agility.
DodgeRollPasses(g, roll, modifier) ==
    roll /= 1 /\ (roll = 6 \/ roll + modifier >= 7 - g.ag)

\* The unit after a step to the square to, r1 being the D6 of the dodge and
\* r2 the D6 of its reroll if there is one; use_reroll is the coach's answer
\* when a team reroll is offered.  The Dodge skill always rerolls.
StepSkillRerollsAlways(g, to, r1, r2, use_reroll) ==
    LET dodge == NumTackleZonesAt(g, g.position) > 0
        modifier == get_dodge_modifiers(g, to)
        moved == [g EXCEPT !.position = to, !.moves = @ + 1,
                           !.last = [dodge |-> dodge, to |-> to, modifier |-> modifier,
                                     from |-> g.position,
                                     failed |-> dodge /\ ~DodgeRollPasses(g, r1, modifier),
                                     dodge_used |-> g.dodge_used, rerolls |-> g.rerolls,
                                     rerolled_by |-> "none"]]
        fallen(h) == [h EXCEPT !.up = FALSE, !.reports = @ \cup {"FAILED_DODGE"}]
        passed(h) == [h EXCEPT !.reports = @ \cup {"SUCCESSFUL_DODGE"}]
    IN IF ~dodge THEN moved
       ELSE IF DodgeRollPasses(g, r1, modifier) THEN passed(moved)
       ELSE IF "DODGE" \in g.skills
       THEN LET again == [moved EXCEPT !.dodge_used = TRUE, !.skill_rerolls = @ + 1,
                                       !.last.rerolled_by = "skill"]
            IN IF DodgeRollPasses(g, r2, modifier) THEN passed(again) ELSE fallen(again)
       ELSE fallen(moved)

\* The unit after a step to the square to: MoveAction and Dodge of the
\* engine.  A failed dodge is rerolled by the Dodge skill if the unit has
\* not used it this turn, else by a team reroll if the team has one left
\* for this turn and the coach uses it, else the unit is knocked down on
\* the square it moved to.
Step(g, to, r1, r2, use_reroll) ==
    LET dodge == NumTackleZonesAt(g, g.position) > 0
        modifier == get_dodge_modifiers(g, to)
        moved == [g EXCEPT !.position = to, !.moves = @ + 1,
                           !.last = [dodge |-> dodge, to |-> to, modifier |-> modifier,
                                     from |-> g.position,
                                     failed |-> dodge /\ ~DodgeRollPasses(g, r1, modifier),
                                     dodge_used |-> g.dodge_used, rerolls |-> g.rerolls,
                                     rerolled_by |-> "none"]]
        fallen(h) == [h EXCEPT !.up = FALSE, !.reports = @ \cup {"FAILED_DODGE"}]
        passed(h) == [h EXCEPT !.reports = @ \cup {"SUCCESSFUL_DODGE"}]
    IN IF ~dodge THEN moved
       ELSE IF DodgeRollPasses(g, r1, modifier) THEN passed(moved)
       ELSE IF "DODGE" \in g.skills /\ ~g.dodge_used
       THEN LET again == [moved EXCEPT !.dodge_used = TRUE, !.skill_rerolls = @ + 1,
                                       !.last.rerolled_by = "skill"]
            IN IF DodgeRollPasses(g, r2, modifier) THEN passed(again) ELSE fallen(again)
       ELSE IF g.rerolls > 0 /\ ~g.reroll_used /\ use_reroll
       THEN LET again == [moved EXCEPT !.rerolls = @ - 1, !.reroll_used = TRUE,
                                       !.last.rerolled_by = "team"]
            IN IF DodgeRollPasses(g, r2, modifier) THEN passed(again) ELSE fallen(again)
       ELSE fallen(moved)

NoStep ==
    [dodge |-> FALSE, to |-> <<2, 2>>, modifier |-> 0, from |-> <<2, 2>>, failed |-> FALSE,
     dodge_used |-> FALSE, rerolls |-> 0, rerolled_by |-> "none"]

\* The states the tests set up: the unit in the middle, standing, with or
\* without the Dodge skill; up to two opponents around it, at most one of
\* them with Prehensile Tail; no or one team reroll.
DodgeGames ==
    {[position |-> <<2, 2>>, up |-> TRUE, ag |-> 3, skills |-> skills, dodge_used |-> FALSE,
      skill_rerolls |-> 0, rerolls |-> rerolls, reroll_used |-> FALSE,
      opponents |-> opponents, tails |-> tails, moves |-> 0, reports |-> {},
      last |-> NoStep] :
        skills \in {{}, {"DODGE"}}, rerolls \in {0, 1},
        opponents \in {S \in SUBSET (DodgeSquares \ {<<2, 2>>}) : Cardinality(S) <= 2},
        tails \in {S \in SUBSET (DodgeSquares \ {<<2, 2>>}) : Cardinality(S) <= 1}}

InitDodge ==
    /\ pc = "idle"
    /\ debug = FALSE
    /\ current_move = <<>>
    /\ heat_map = <<>>
    /\ game \in {g \in DodgeGames : g.tails \subseteq g.opponents}
    /\ handled = NotRun
    /\ result = NotRun
    /\ all_actions = <<>>
    /\ generated = <<>>
    /\ handed = <<>>
    /\ heat_prev = <<>>
    /\ heat_op = NoHeat
    /\ heat_op_prev = NoHeat
    /\ pen = NoPen

\* game.step(Action(ActionType.MOVE, player=player, position=to)): a step
\* to a free adjacent square, while the unit stands and has moves left.
DodgeMove ==
    /\ game.up
    /\ game.moves < MaxMoves
    /\ \E to \in DodgeSquares, r1 \in 1..6 :
           /\ IsAdjacentSquare(to, game.position)
           /\ to \notin game.opponents
           \* the second die is rolled, and the coach asked, only after a
           \* failed dodge
           /\ LET failed == /\ NumTackleZonesAt(game, game.position) > 0
                            /\ ~DodgeRollPasses(game, r1, get_dodge_modifiers(game, to))
              IN \E r2 \in IF failed THEN 1..6 ELSE {1},
                    use_reroll \in IF failed /\ game.rerolls > 0 THEN BOOLEAN ELSE {FALSE} :
                     game' = Step(game, to, r1, r2, use_reroll)
    /\ UNCHANGED <<pc, debug, current_move, heat_map, handled, result, all_actions,
                   generated, handed, heat_prev, heat_op, heat_op_prev, pen>>

SpecDodge == InitDodge /\ [][DodgeMove]_vars

\* C15: the Dodge skill rerolls at most one failed dodge a turn; a dodge
\* that fails after the skill has been used is not rerolled by the skill,
\* and with no team reroll the unit is knocked down on the square it moved
\* to.
C15_DodgeSkillRerollsOncePerTurn ==
    /\ game.skill_rerolls <= 1
    /\ game.last.failed /\ game.last.dodge_used =>
           /\ game.last.rerolled_by /= "skill"
           /\ game.last.rerolls = 0 => ~game.up /\ game.position = game.last.to

\* The unit fails a dodge after the skill has rerolled an earlier one, with
\* no team reroll.
C15_Witness ==
    /\ game.last.failed /\ game.last.dodge_used /\ game.last.rerolls = 0
    /\ game.skill_rerolls = 1
    /\ "SUCCESSFUL_DODGE" \in game.reports

\* The opposing units next to a square.
OpponentsNextTo(square) == {sq \in game.opponents : IsAdjacentSquare(sq, square)}

\* C16: the dodge modifier of a step is 1 less the number of opposing
\* tackle zones on the target square (1 with none, 0 with one, -1 with
\* two), whatever the tackle zones on the square left, and 1 less again
\* when the unit leaves a square next to an opponent with Prehensile Tail.
C16_DodgeModifierCountsTargetZones ==
    game.last.dodge =>
        LET zones == Cardinality(OpponentsNextTo(game.last.to))
            tail == OpponentsNextTo(game.last.from) \cap game.tails /= {}
        IN game.last.modifier =
               (CASE zones = 0 -> 1 [] zones = 1 -> 0 [] zones = 2 -> -1)
               - (IF tail THEN 1 ELSE 0)

\* A dodge onto a square in two tackle zones from a square in one, the
\* opponent left behind having Prehensile Tail.
C16_Witness ==
    /\ game.last.dodge
    /\ Cardinality(OpponentsNextTo(game.last.to)) = 2
    /\ Cardinality(OpponentsNextTo(game.last.from)) = 1
    /\ OpponentsNextTo(game.last.from) \cap game.tails /= {}
    /\ game.last.modifier = -2

=============================================================================
